---- MODULE Spec2Model ----
(***************************************************************************)
(* Model of the StarkEx signature pipeline of the astrade backend:         *)
(*   backend/app/services/extended/signature_service.py                    *)
(*   backend/stark-crypto-consolidated/python/fast_stark_crypto/lib.py     *)
(*                                                                         *)
(* Representation of Python values                                         *)
(*   - a str is a sequence of one-character strings;                       *)
(*   - an int obtained from int(text, 16) (keys, asset ids) is kept as its *)
(*     canonical digit sequence (lower case, no leading zero), because     *)
(*     these values are far above TLC's integer range; Python ints are     *)
(*     unbounded, so no width is lost;                                     *)
(*   - amounts, nonces and timestamps are TLC integers;                    *)
(*   - a Decimal is a record [m, e] standing for m * 10^(-e);              *)
(*   - a raised exception is a record [exc |-> <class name>].              *)
(***************************************************************************)
EXTENDS Integers, Naturals, Sequences, FiniteSets, TLC

VARIABLES
    STARK_CRYPTO_AVAILABLE, \* module flag set by the import at process start
    pc,                     \* "idle" | "done": a call is returned, then cleared
    op,                     \* the operation of the call just made
    args,                   \* its arguments
    hashCalls,              \* provider hash invocations made by the call
    signCalls,              \* stark_sign invocations made by the call
    result,                 \* the value the call returned
    nk_in,                  \* normalize_public_key: the text given
    nk_out,                 \* normalize_public_key: the text returned, or the exception
    nk_again,               \* normalize_public_key applied to its own output
    chain_ids,              \* ExtendedSignatureService.chain_ids
    signing_domains,        \* ExtendedSignatureService.signing_domains
    again,                  \* the same call made a second time, at a later clock reading
    tasks,                  \* the calls in progress when several run concurrently
    payload,                \* the API order a caller builds around a settlement object
    checked,                \* onboarding route: pairs validate_signature_components accepted
    onboarding_calls,       \* onboarding route: the contract calls built
    submitted,              \* onboarding route: the calls handed to Cavos for execution
    client,                 \* StarkTradingService.client
    stark_account,          \* StarkTradingService.account
    is_initializing,        \* StarkTradingService._is_initializing
    initialization_lock,    \* StarkTradingService._initialization_lock: its holder
    constructed,            \* the BlockingTradingClient objects constructed so far
    init_failed,            \* whether an initialization has ended in the except branch
    callers,                \* the initialize_client calls of the threads
    connections,            \* ExtendedWebSocketService.connections
    stream_connections,     \* ExtendedWebSocketService.stream_connections
    streams,                \* the upstream connections and their listener tasks
    handlers                \* the add/remove calls made for each client socket

tableVars == <<chain_ids, signing_domains>>
routeVars == <<checked, onboarding_calls, submitted>>
tradingVars == <<client, stark_account, is_initializing, initialization_lock, constructed,
                 init_failed, callers>>
\* the other service instances of the process
relayVars == <<connections, stream_connections, streams, handlers>>
serviceVars == <<tradingVars, relayVars>>

vars == <<STARK_CRYPTO_AVAILABLE, pc, op, args, hashCalls, signCalls, result,
          nk_in, nk_out, nk_again, tableVars, again, tasks, payload, routeVars,
          serviceVars>>

sigVars == <<STARK_CRYPTO_AVAILABLE, op, args, hashCalls, signCalls, result>>
normVars == <<nk_in, nk_out, nk_again>>
\* what the calls of one operation at a time leave alone
restVars == <<tableVars, again, tasks, payload, routeVars, serviceVars>>

-----------------------------------------------------------------------------
(* Bounds of the model *)

\* most keys of order_params a caller leaves out or sets to None in one call
MaxUnset == 1
\* stand-in for the STARK field modulus 2^251 + 17 * 2^192 + 1, scaled to the
\* amounts of the model (TLC integers are 32 bits wide); the service never
\* compares an amount with the modulus
ScaledFieldModulus == 1000000
\* the clock reading, in seconds, when a call is made
Now == 500
\* longest key text given to normalize_public_key
MaxKeyLen == 5
\* most leading zeros added to a key text when comparing its textual forms
MaxPad == 2

-----------------------------------------------------------------------------
(* Python text and int primitives *)

\* what an expression evaluates to: a value, or the class of the exception raised
Ok(v) == [exc |-> "none", val |-> v]
Raised(cls) == [exc |-> cls, val |-> <<>>]
IsRaised(o) == o.exc # "none"

\* an Optional[str]: None, or a text
None == [some |-> FALSE, val |-> <<>>]
Some(text) == [some |-> TRUE, val |-> text]

\* the truth value of an Optional[str]: None and '' are false
Truthy(x) == x.some /\ x.val # <<>>

Prefix0x == <<"0", "x">>
Prefix0X == <<"0", "X">>

HasPrefix(s, p) == Len(s) >= Len(p) /\ SubSeq(s, 1, Len(p)) = p

Drop(s, n) == SubSeq(s, n + 1, Len(s))

\* str.replace('0x', ''): every non-overlapping occurrence, left to right
RECURSIVE Replace0x(_)
Replace0x(s) ==
    IF s = <<>> THEN <<>>
    ELSE IF HasPrefix(s, Prefix0x) THEN Replace0x(Drop(s, 2))
    ELSE <<Head(s)>> \o Replace0x(Tail(s))

LowerHexDigits == {"0","1","2","3","4","5","6","7","8","9","a","b","c","d","e","f"}
UpperHexDigits == {"A","B","C","D","E","F"}

\* the digit int(text, 16) reads: upper case counts as lower case
Lower(c) ==
    CASE c = "A" -> "a" [] c = "B" -> "b" [] c = "C" -> "c"
      [] c = "D" -> "d" [] c = "E" -> "e" [] c = "F" -> "f"
      [] OTHER -> c

IsHexDigit(c) == c \in LowerHexDigits \cup UpperHexDigits

RECURSIVE StripZeros(_)
StripZeros(d) ==
    IF Len(d) > 1 /\ Head(d) = "0" THEN StripZeros(Tail(d)) ELSE d

\* int(text, 16): an optional 0x/0X prefix, then at least one hex digit; the
\* value is its canonical digit sequence. Anything else raises ValueError.
IntBase16(s) ==
    LET body == IF HasPrefix(s, Prefix0x) \/ HasPrefix(s, Prefix0X)
                THEN Drop(s, 2) ELSE s
    IN IF body = <<>> \/ \E i \in 1..Len(body) : ~IsHexDigit(body[i])
       THEN Raised("ValueError")
       ELSE Ok(StripZeros([i \in 1..Len(body) |-> Lower(body[i])]))

\* hex(n) of a non-negative int: "0x" and the minimal lower-case digits
Hex(n) == Prefix0x \o n

\* a variant that keeps the digits as they were written (leading zeros, case)
normalize_public_key_verbatim(public_key) ==
    LET clean_key == Replace0x(public_key)
        key_int == IntBase16(clean_key)
    IN IF IsRaised(key_int) THEN key_int ELSE Ok(Prefix0x \o clean_key)

\* ExtendedSignatureService.normalize_public_key
normalize_public_key(public_key) ==
    LET clean_key == Replace0x(public_key)
        key_int == IntBase16(clean_key)
    IN IF IsRaised(key_int) THEN key_int ELSE Ok(Hex(key_int.val))

-----------------------------------------------------------------------------
(* Python numeric primitives *)

\* Decimal m * 10^(-e)
Dec(m, e) == [m |-> m, e |-> e]

\* a * b; a power of ten in b is first taken out of a's exponent, which
\* leaves the product's value as it is and keeps its digits short
RECURSIVE DecMul(_, _)
DecMul(a, b) ==
    IF a.e > 0 /\ b.m # 0 /\ b.m % 10 = 0
    THEN DecMul(Dec(a.m, a.e - 1), Dec(b.m \div 10, b.e))
    ELSE Dec(a.m * b.m, a.e + b.e)

Abs(n) == IF n < 0 THEN -n ELSE n

\* int(Decimal): truncation toward zero
DecToInt(d) ==
    IF d.m >= 0 THEN d.m \div (10 ^ d.e) ELSE -((-d.m) \div (10 ^ d.e))

\* round(Decimal) with no digits: nearest integer, ties to the even one
DecRound(d) ==
    LET p == 10 ^ d.e
        a == Abs(d.m)
        q == a \div p
        r == a % p
        up == (2 * r > p) \/ (2 * r = p /\ q % 2 = 1)
        n == IF up THEN q + 1 ELSE q
    IN IF d.m >= 0 THEN n ELSE -n

DecimalDigit(k) ==
    CASE k = 0 -> "0" [] k = 1 -> "1" [] k = 2 -> "2" [] k = 3 -> "3" [] k = 4 -> "4"
      [] k = 5 -> "5" [] k = 6 -> "6" [] k = 7 -> "7" [] k = 8 -> "8" [] k = 9 -> "9"

RECURSIVE NatText(_)
NatText(n) ==
    IF n < 10 THEN <<DecimalDigit(n)>> ELSE NatText(n \div 10) \o <<DecimalDigit(n % 10)>>

\* str(n) of an int
Str(n) == IF n < 0 THEN <<"-">> \o NatText(-n) ELSE NatText(n)

\* str.upper() on the side texts callers pass
Upper(t) ==
    CASE t = "buy" -> "BUY" [] t = "sell" -> "SELL" [] t = "hold" -> "HOLD"
      [] OTHER -> t

-----------------------------------------------------------------------------
(* Values a caller puts in order_params *)

\* every value carries its type t and, by type, its text s or its number
\* m * 10^(-e)
PyNone == [t |-> "None", s |-> "", m |-> 0, e |-> 0]
PyText(x) == [t |-> "str", s |-> x, m |-> 0, e |-> 0]
PyInt(n) == [t |-> "int", s |-> "", m |-> n, e |-> 0]
PyDecimalText(m, e) == [t |-> "decimal", s |-> "", m |-> m, e |-> e]
\* a key the dict does not hold
Absent == [t |-> "absent", s |-> "", m |-> 0, e |-> 0]

\* dict.get(key, default)
Get(d, key, default) == IF key \in DOMAIN d THEN d[key] ELSE default

\* x.upper(): None has no such attribute
PyUpper(x) ==
    IF x.t = "str" THEN Ok(Upper(x.s)) ELSE Raised("AttributeError")

\* Decimal(str(x)): str(None) is 'None', which is no number
PyDecimal(x) ==
    CASE x.t = "decimal" -> Ok(Dec(x.m, x.e))
      [] x.t = "int" -> Ok(Dec(x.m, 0))
      [] OTHER -> Raised("InvalidOperation")

\* int(x)
PyInteger(x) ==
    CASE x.t = "int" -> Ok(x.m)
      [] x.t = "decimal" -> Ok(DecToInt(Dec(x.m, x.e)))
      [] x.t = "None" -> Raised("TypeError")
      [] OTHER -> Raised("ValueError")

\* private_key.replace('0x', '') then int(clean_private_key, 16)
PrivateKeyInt(private_key) == IntBase16(Replace0x(private_key))

-----------------------------------------------------------------------------
(* fast_stark_crypto/lib.py *)

\* the same call with salt and expiration passed in each other's place
OrderMsgArguments_salt_before_expiration(kw) ==
    << Str(kw.position_id),
       Hex(kw.base_asset_id),
       Str(kw.base_amount),
       Hex(kw.quote_asset_id),
       Str(kw.quote_amount),
       Hex(kw.fee_asset_id),
       Str(kw.fee_amount),
       Str(kw.salt),
       Str(kw.expiration),
       Hex(kw.user_public_key),
       kw.domain_name,
       kw.domain_version,
       kw.domain_chain_id,
       kw.domain_revision >>

\* get_order_msg_hash: the keyword arguments in the order rs_get_order_msg
\* takes them, amounts and ids as decimal text, asset ids and key as hex text
OrderMsgArguments(kw) ==
    << Str(kw.position_id),
       Hex(kw.base_asset_id),
       Str(kw.base_amount),
       Hex(kw.quote_asset_id),
       Str(kw.quote_amount),
       Hex(kw.fee_asset_id),
       Str(kw.fee_amount),
       Str(kw.expiration),
       Str(kw.salt),
       Hex(kw.user_public_key),
       kw.domain_name,
       kw.domain_version,
       kw.domain_chain_id,
       kw.domain_revision >>

\* the int the provider returns for these arguments (rs_get_order_msg is a
\* function of its arguments; its digest is kept symbolic)
get_order_msg_hash(kw) == [digest_of |-> OrderMsgArguments(kw)]

-----------------------------------------------------------------------------
(* signature_service.py: stark_sign *)

\* What the libraries do during one call, chosen by the environment:
\*   hash_raises     rs_get_order_msg rejects its arguments
\*   primary_raises  fast_stark_crypto.sign raises
\*   x10_raises      importing or calling x10.utils.starkex.sign raises
\*   r, s            the signature components the provider reached computes
SignedBy(provider, tried, env) ==
    [provider |-> provider, tried |-> tried, r |-> env.r, s |-> env.s]

\* stark_sign: the primary provider when the import found it; when it is
\* missing or raises, x10's sign; when that raises too, the two halves of a
\* SHA-256 digest of message and key
stark_sign(message_hash, private_key, env) ==
    LET first == IF STARK_CRYPTO_AVAILABLE THEN <<"fast_stark_crypto">> ELSE <<>>
    IN IF STARK_CRYPTO_AVAILABLE /\ ~env.primary_raises
       THEN SignedBy("fast_stark_crypto", first, env)
       ELSE IF ~env.x10_raises
            THEN SignedBy("x10", first \o <<"x10">>, env)
            ELSE SignedBy("sha256", first \o <<"x10", "sha256">>, env)

-----------------------------------------------------------------------------
(* signature_service.py: ExtendedSignatureService *)

\* the fallback class StarknetChainId of the module
StarknetChainId == [SEPOLIA_TESTNET |-> "SN_SEPOLIA", MAINNET |-> "SN_MAINNET"]

\* ExtendedSignatureService.__init__: the two tables of the instance
InitialChainIds ==
    [sepolia |-> StarknetChainId.SEPOLIA_TESTNET, mainnet |-> StarknetChainId.MAINNET]

InitialSigningDomains ==
    [sepolia |-> "starknet.sepolia.extended.exchange", mainnet |-> "extended.exchange"]

BTC_ASSET_ID_HEX == <<"0","x","4","2","5","4","4","3","2","d","3","6","0","0","0","0","0","0","0","0","0","0","0","0","0","0","0","0","0","0","0","0">>
USDT_ASSET_ID_HEX == <<"0","x","3","1","8","5","7","0","6","4","5","6","4","e","d","0","f","f","9","7","8","e","6","8","7","4","5","6","9","6","3","c","b","a","0","9","c","2","c","6","9","8","5","d","8","f","9","3","0","0","a","1","d","e","4","9","6","2","f","a","f","a","0","5","4">>
USER_PUBLIC_KEY_HEX == <<"0","x","2","4","e","5","0","f","e","6","d","5","2","4","7","d","2","0","f","e","d","c","2","3","8","8","9","c","0","1","2","c","5","5","6","e","e","e","1","7","5","a","3","9","8","c","3","5","5","9","0","3","b","7","4","2","b","9","c","5","4","5","f","7","f">>

\* int(base_asset_id_hex, 16), int(quote_asset_id_hex, 16), int(user_public_key_hex, 16)
base_asset_id == IntBase16(BTC_ASSET_ID_HEX).val
quote_asset_id == IntBase16(USDT_ASSET_ID_HEX).val
user_public_key == IntBase16(USER_PUBLIC_KEY_HEX).val

\* Decimal('1000000'): amounts are hashed in micro units
MicroUnits == 1000000
\* 24 * 3600, added to the expiry before it is hashed
ExpiryOffsetSeconds == 86400
\* the expiry used when the caller gives none: now + 3600
DefaultExpirySeconds == 3600

EmptyText == <<>>

\* a failure tuple whose error message was left empty
Failure_without_message(prefix, cause) ==
    [success |-> FALSE, r |-> EmptyText, s |-> EmptyText, error |-> EmptyText]

\* return False, "", "", error_msg
Failure(prefix, cause) ==
    [success |-> FALSE, r |-> EmptyText, s |-> EmptyText, error |-> <<prefix, cause>>]

\* return True, <r as hex>, <s as hex>, ""
Success(r, s) ==
    [success |-> TRUE, r |-> r, s |-> s, error |-> EmptyText]

\* the class of the first exception among the steps, in program order
FirstRaised(steps) ==
    LET bad == {i \in 1..Len(steps) : IsRaised(steps[i])}
    IN IF bad = {} THEN "none"
       ELSE steps[CHOOSE i \in bad : \A j \in bad : i <= j].exc

OrderFailurePrefix == "Failed to generate StarkEx signature: "

\* a variant that adds the expiry offset a second time
OrderHashArguments_offset_twice(side, qty, price, nonce, position_id, expiry, fee_rate, network) ==
    LET expiry_timestamp == expiry + ExpiryOffsetSeconds + ExpiryOffsetSeconds
        base_amount_micro == DecToInt(DecMul(qty, Dec(MicroUnits, 0)))
        quote_amount_micro == DecToInt(DecMul(DecMul(price, qty), Dec(MicroUnits, 0)))
        final_base_amount == IF side = "BUY" THEN base_amount_micro ELSE -base_amount_micro
        final_quote_amount == IF side = "BUY" THEN -quote_amount_micro ELSE quote_amount_micro
        fee_amount == DecRound(DecMul(Dec(Abs(final_quote_amount), 0), fee_rate))
    IN [ position_id |-> position_id,
         base_asset_id |-> base_asset_id,
         base_amount |-> final_base_amount,
         quote_asset_id |-> quote_asset_id,
         quote_amount |-> final_quote_amount,
         fee_asset_id |-> quote_asset_id,
         fee_amount |-> fee_amount,
         expiration |-> expiry_timestamp,
         salt |-> nonce,
         user_public_key |-> user_public_key,
         domain_name |-> "Perpetuals",
         domain_version |-> "v0",
         domain_chain_id |-> IF network = "sepolia" THEN "SN_SEPOLIA" ELSE "SN_MAIN",
         domain_revision |-> "1" ]

\* the lines between the parameter extraction and the provider call: amounts
\* in micro units, signs by side, fee, salt, key and domain
OrderHashArguments(side, qty, price, nonce, position_id, expiry, fee_rate, network) ==
    LET expiry_timestamp == expiry + ExpiryOffsetSeconds
        base_amount_micro == DecToInt(DecMul(qty, Dec(MicroUnits, 0)))
        quote_amount_micro == DecToInt(DecMul(DecMul(price, qty), Dec(MicroUnits, 0)))
        final_base_amount == IF side = "BUY" THEN base_amount_micro ELSE -base_amount_micro
        final_quote_amount == IF side = "BUY" THEN -quote_amount_micro ELSE quote_amount_micro
        fee_amount == DecRound(DecMul(Dec(Abs(final_quote_amount), 0), fee_rate))
    IN [ position_id |-> position_id,
         base_asset_id |-> base_asset_id,
         base_amount |-> final_base_amount,
         quote_asset_id |-> quote_asset_id,
         quote_amount |-> final_quote_amount,
         fee_asset_id |-> quote_asset_id,
         fee_amount |-> fee_amount,
         expiration |-> expiry_timestamp,
         salt |-> nonce,
         user_public_key |-> user_public_key,
         domain_name |-> "Perpetuals",
         domain_version |-> "v0",
         domain_chain_id |-> IF network = "sepolia" THEN "SN_SEPOLIA" ELSE "SN_MAIN",
         domain_revision |-> "1" ]

NoCalls == [result |-> Failure("", ""), hashCalls |-> <<>>, signCalls |-> <<>>]

\* the handler as written, except that a fault of the provider's hash is
\* replaced by a locally computed digest and signing goes on
order_signature_after_hashing_continue(kw, private_key_int, env) ==
    LET message_hash == get_order_msg_hash(kw)
        sig == stark_sign(message_hash, private_key_int, env)
        call == [kw |-> kw, rs |-> OrderMsgArguments(kw),
                 raised |-> ~STARK_CRYPTO_AVAILABLE \/ env.hash_raises]
    IN [ result |-> Success(Prefix0x \o sig.r, Prefix0x \o sig.s),
         hashCalls |-> IF STARK_CRYPTO_AVAILABLE THEN <<call>> ELSE <<>>,
         signCalls |-> <<sig>> ]

\* lines 388-428: the provider's hash, then stark_sign, then the result tuple
order_signature_after_hashing(kw, private_key_int, env) ==
    IF ~STARK_CRYPTO_AVAILABLE
    THEN [NoCalls EXCEPT !.result = Failure(OrderFailurePrefix, "Exception")]
    ELSE LET call == [kw |-> kw, rs |-> OrderMsgArguments(kw), raised |-> env.hash_raises]
         IN IF env.hash_raises
            THEN [ result |-> Failure(OrderFailurePrefix, "ProviderError"),
                   hashCalls |-> <<call>>,
                   signCalls |-> <<>> ]
            ELSE LET message_hash == get_order_msg_hash(kw)
                     sig == stark_sign(message_hash, private_key_int, env)
                 IN [ result |-> Success(Prefix0x \o sig.r, Prefix0x \o sig.s),
                      hashCalls |-> <<call>>,
                      signCalls |-> <<sig>> ]

\* ExtendedSignatureService.generate_starkex_order_signature
generate_starkex_order_signature(private_key, order_params, network, env) ==
    LET private_key_int == PrivateKeyInt(private_key)
        side == PyUpper(Get(order_params, "side", PyText("BUY")))
        qty == PyDecimal(Get(order_params, "qty", PyDecimalText(0, 0)))
        price == PyDecimal(Get(order_params, "price", PyDecimalText(0, 0)))
        nonce == PyInteger(Get(order_params, "nonce", PyInt(1)))
        position_id == PyInteger(Get(order_params, "position_id", PyInt(0)))
        expiry == PyInteger(Get(order_params, "expiry_timestamp",
                                PyInt(env.now + DefaultExpirySeconds)))
        fee_rate == PyDecimal(Get(order_params, "fee_rate", PyDecimalText(1, 3)))
        raised == FirstRaised(<<private_key_int, side, qty, price, nonce,
                                position_id, expiry, fee_rate>>)
    IN IF raised # "none"
       THEN [NoCalls EXCEPT !.result = Failure(OrderFailurePrefix, raised)]
       ELSE order_signature_after_hashing(
                OrderHashArguments(side.val, qty.val, price.val, nonce.val,
                                   position_id.val, expiry.val, fee_rate.val, network),
                private_key_int.val, env)

\* the import of KeyPair (starknet_py) is commented out and nothing else
\* binds the name: evaluating KeyPair.from_private_key raises NameError
KeyPairDefined == FALSE

KeyPairFromPrivateKey(private_key_int) ==
    IF KeyPairDefined THEN Ok(private_key_int) ELSE Raised("NameError")

\* the fallback compute_hash_on_elements / pedersen_hash / get_selector_from_name
\* of the module: a digest of the elements, kept symbolic
ElementsDigest(elements) == [digest_of |-> elements]

\* a variant that reports a malformed key like any other failure
generate_extended_onboarding_signature_one_handler(private_key, account_address, stark_public_key, network, env) ==
    LET private_key_int == PrivateKeyInt(private_key)
        key_pair == IF IsRaised(private_key_int) THEN private_key_int
                    ELSE KeyPairFromPrivateKey(private_key_int.val)
        raised == FirstRaised(<<private_key_int, key_pair>>)
    IN [NoCalls EXCEPT !.result = Failure("Signature generation failed: ", raised)]

\* ExtendedSignatureService.generate_extended_onboarding_signature
generate_extended_onboarding_signature(private_key, account_address, stark_public_key, network, env) ==
    LET private_key_int == PrivateKeyInt(private_key)
        key_pair == IF IsRaised(private_key_int) THEN private_key_int
                    ELSE KeyPairFromPrivateKey(private_key_int.val)
        normalized_provided_key == normalize_public_key(stark_public_key)
        account_address_felt == IntBase16(account_address)
        stark_public_key_felt == IntBase16(stark_public_key)
        raised == FirstRaised(<<private_key_int, key_pair, normalized_provided_key,
                                account_address_felt, stark_public_key_felt>>)
    IN IF raised = "ValueError"
       THEN [NoCalls EXCEPT !.result = Failure("Invalid key format: ", raised)]
       ELSE IF raised # "none"
       THEN [NoCalls EXCEPT !.result = Failure("Signature generation failed: ", raised)]
       ELSE LET message_elements ==
                    << <<"0">>, account_address_felt.val, stark_public_key_felt.val,
                       <<"1">>, Str(env.now), ElementsDigest(<<"REGISTER">>) >>
                message_hash == ElementsDigest(message_elements)
                sig == stark_sign(message_hash, key_pair.val, env)
            IN [ result |-> Success(Hex(sig.r), Hex(sig.s)),
                 hashCalls |-> <<[kw |-> <<>>, rs |-> message_elements, raised |-> FALSE]>>,
                 signCalls |-> <<sig>> ]

\* ExtendedSignatureService.generate_key_registration_signature
generate_key_registration_signature(private_key, account_address, stark_public_key, network, env) ==
    LET private_key_int == PrivateKeyInt(private_key)
        key_pair == IF IsRaised(private_key_int) THEN private_key_int
                    ELSE KeyPairFromPrivateKey(private_key_int.val)
        account_address_int == IntBase16(account_address)
        stark_public_key_int == IntBase16(stark_public_key)
        raised == FirstRaised(<<private_key_int, key_pair, account_address_int,
                                stark_public_key_int>>)
    IN IF raised # "none"
       THEN [NoCalls EXCEPT !.result = Failure("Key registration signature failed: ", raised)]
       ELSE LET pair == <<account_address_int.val, stark_public_key_int.val>>
                message_hash == ElementsDigest(pair)
                sig == stark_sign(message_hash, key_pair.val, env)
            IN [ result |-> Success(Hex(sig.r), Hex(sig.s)),
                 hashCalls |-> <<[kw |-> <<>>, rs |-> pair, raised |-> FALSE]>>,
                 signCalls |-> <<sig>> ]

\* the shortest r or s text validate_signature_components accepts
MinSignatureTextLen == 60

\* ExtendedSignatureService.validate_signature_components
validate_signature_components(signature_r, signature_s) ==
    IF IsRaised(IntBase16(signature_r)) \/ IsRaised(IntBase16(signature_s))
    THEN FALSE
    ELSE IF Len(signature_r) < MinSignatureTextLen \/ Len(signature_s) < MinSignatureTextLen
    THEN FALSE
    ELSE TRUE

\* the empty dict
EmptyObject == <<>>

\* a variant that builds the object whatever the signing returned
create_settlement_object_unchecked(private_key, stark_public_key, order_params, collateral_position, network, env) ==
    LET signed == generate_starkex_order_signature(private_key, order_params, network, env)
        starkKey == normalize_public_key(stark_public_key)
    IN IF IsRaised(starkKey)
       THEN [signed EXCEPT !.result =
                [success |-> FALSE, settlement |-> EmptyObject,
                 error |-> <<"Settlement object creation failed: ", starkKey.exc>>]]
       ELSE [signed EXCEPT !.result =
                [success |-> TRUE,
                 settlement |-> [signature |-> [r |-> signed.result.r, s |-> signed.result.s],
                                 starkKey |-> starkKey.val,
                                 collateralPosition |-> collateral_position],
                 error |-> EmptyText]]

\* ExtendedSignatureService.create_settlement_object
create_settlement_object(private_key, stark_public_key, order_params, collateral_position, network, env) ==
    LET signed == generate_starkex_order_signature(private_key, order_params, network, env)
        starkKey == normalize_public_key(stark_public_key)
    IN IF ~signed.result.success
       THEN [signed EXCEPT !.result =
                [success |-> FALSE, settlement |-> EmptyObject,
                 error |-> signed.result.error]]
       ELSE IF IsRaised(starkKey)
       THEN [signed EXCEPT !.result =
                [success |-> FALSE, settlement |-> EmptyObject,
                 error |-> <<"Settlement object creation failed: ", starkKey.exc>>]]
       ELSE [signed EXCEPT !.result =
                [success |-> TRUE,
                 settlement |-> [signature |-> [r |-> signed.result.r, s |-> signed.result.s],
                                 starkKey |-> starkKey.val,
                                 collateralPosition |-> collateral_position],
                 error |-> EmptyText]]

-----------------------------------------------------------------------------
(* Inputs of the signing calls *)

Unset == {Absent, PyNone}

SideValues == {PyText("BUY"), PyText("sell")}
\* 0.001, 0, -0.001, 0.0000005 (below one micro unit), 2
QtyValues == {PyDecimalText(1, 3), PyDecimalText(0, 0), PyDecimalText(-1, 3),
              PyDecimalText(5, 7), PyDecimalText(2, 0)}
\* 95, -95, 0.5
PriceValues == {PyDecimalText(95, 0), PyDecimalText(-95, 0), PyDecimalText(5, 1)}
NonceValues == {PyInt(7)}
PositionValues == {PyInt(10002)}
ExpiryValues == {PyInt(1000)}
\* 0.001, -0.001, 0.0005, 0
FeeRateValues == {PyDecimalText(1, 3), PyDecimalText(-1, 3), PyDecimalText(5, 4),
                  PyDecimalText(0, 0)}

OrderFields == {"side", "qty", "price", "nonce", "position_id", "expiry_timestamp",
                "fee_rate"}

UnsetFields(r) == {f \in OrderFields : r[f].t \in {"absent", "None"}}

\* the dict a caller passes: the keys it holds and their values
AsDict(r) == [f \in {k \in OrderFields : r[k].t # "absent"} |-> r[f]]

OrderParams ==
    { AsDict(r) : r \in
        { q \in [ side : SideValues \cup Unset,
                  qty : QtyValues \cup Unset,
                  price : PriceValues \cup Unset,
                  nonce : NonceValues \cup Unset,
                  position_id : PositionValues \cup Unset,
                  expiry_timestamp : ExpiryValues \cup Unset,
                  fee_rate : FeeRateValues \cup Unset ] :
            Cardinality(UnsetFields(q)) <= MaxUnset } }

\* the order of the repository's settlement test, and the same with no nonce,
\* with no quantity, and with a None price
SettlementOrders ==
    LET full == [ side |-> PyText("BUY"), qty |-> PyDecimalText(1, 3),
                  price |-> PyDecimalText(95, 0), nonce |-> PyInt(7),
                  position_id |-> PyInt(10002), expiry_timestamp |-> PyInt(1000),
                  fee_rate |-> PyDecimalText(1, 3) ]
    IN { AsDict(full),
         AsDict([full EXCEPT !.nonce = Absent]),
         AsDict([full EXCEPT !.qty = Absent]),
         AsDict([full EXCEPT !.price = PyNone]) }

\* the order whose hashed values are those of the known vector: BUY 0.001 at
\* 43445.117 with fee rate 0.0005, position 10002, salt 1473459052 and
\* expiry 1706836137
WorkedExampleOrder ==
    AsDict([ side |-> PyText("BUY"), qty |-> PyDecimalText(1, 3),
             price |-> PyDecimalText(43445117, 3), nonce |-> PyInt(1473459052),
             position_id |-> PyInt(10002), expiry_timestamp |-> PyInt(1706836137),
             fee_rate |-> PyDecimalText(5, 4) ])

PrivateKeys == { <<"0", "x", "1", "f">>, <<"z", "z">> }
Networks == {"sepolia", "mainnet", "goerli"}
WalletAddresses == { <<"0", "x", "a", "1">>, <<"0", "x", "g">> }
StarkPublicKeys == { <<"0", "x", "0", "2", "4", "e">>, <<"2", "4", "E">>, <<"0", "x">> }
CollateralPositions == {"500029", ""}

\* signature components as the providers return them (ints, as digits)
SignaturePairs == { [r |-> <<"7", "f">>, s |-> <<"1">>],
                    [r |-> <<"1">>, s |-> <<"a", "0", "3">>] }

\* what the libraries do during one call; a choice that cannot matter (the
\* x10 fallback when the primary provider signs) takes one value only
Environments ==
    { e \in [ now : {Now}, hash_raises : BOOLEAN, primary_raises : BOOLEAN,
              x10_raises : BOOLEAN, r : {p.r : p \in SignaturePairs},
              s : {p.s : p \in SignaturePairs} ] :
        /\ [r |-> e.r, s |-> e.s] \in SignaturePairs
        /\ e.hash_raises => (~e.primary_raises /\ ~e.x10_raises
                             /\ e.r = <<"1">>)
        /\ ~e.primary_raises => ~e.x10_raises }

-----------------------------------------------------------------------------
(* Specification of the signature service *)

\* normalize_public_key has not been called
NormIdle == Raised("not called")

\* no second invocation was made
NotRepeated == [now |-> 0, result |-> <<>>, hashCalls |-> <<>>, signCalls |-> <<>>]

\* threads that may call initialize_client at the same time
NumCallers == 2
Threads == 1..NumCallers

\* a thread that is not inside initialize_client
IdleCaller == [pc |-> "idle", value |-> None]

\* StarkTradingService.__init__, and no call made yet
TradingIdle ==
    /\ client = None
    /\ stark_account = None
    /\ is_initializing = FALSE
    /\ initialization_lock = 0
    /\ constructed = 0
    /\ init_failed = FALSE
    /\ callers = [t \in Threads |-> IdleCaller]

\* client sockets, and upstream connections that can exist at one time
NumClients == 2
MaxStreams == 2
Clients == 1..NumClients
StreamIds == 1..MaxStreams
Symbols == {"BTC-USD"}

\* the empty dict
EmptyDict == [k \in {} |-> {}]

\* no upstream connection object in this slot
NoStream == [symbol |-> "", state |-> "free", listener |-> "none"]

\* a client socket for which no call is in progress and which is not subscribed
NoHandler == [pc |-> "out", symbol |-> "", stream |-> 0]

\* ExtendedWebSocketService.__init__
RelayIdle ==
    /\ connections = EmptyDict
    /\ stream_connections = EmptyDict
    /\ streams = [i \in StreamIds |-> NoStream]
    /\ handlers = [c \in Clients |-> NoHandler]

ServicesIdle == TradingIdle /\ RelayIdle

\* the service as constructed, and nothing in progress around it
RestIdle ==
    /\ ServicesIdle
    /\ chain_ids = InitialChainIds
    /\ signing_domains = InitialSigningDomains
    /\ again = NotRepeated
    /\ tasks = <<>>
    /\ payload = <<>>
    /\ checked = {}
    /\ onboarding_calls = <<>>
    /\ submitted = <<>>

Init ==
    /\ STARK_CRYPTO_AVAILABLE \in BOOLEAN
    /\ pc = "idle"
    /\ op = "none"
    /\ args = <<>>
    /\ hashCalls = <<>>
    /\ signCalls = <<>>
    /\ result = <<>>
    /\ nk_in = <<>>
    /\ nk_out = NormIdle
    /\ nk_again = NormIdle
    /\ RestIdle

Returned(name, arguments, outcome) ==
    /\ pc' = "done"
    /\ op' = name
    /\ args' = arguments
    /\ hashCalls' = outcome.hashCalls
    /\ signCalls' = outcome.signCalls
    /\ result' = outcome.result
    /\ UNCHANGED <<STARK_CRYPTO_AVAILABLE, normVars, restVars>>

CallOrderSignature ==
    /\ pc = "idle"
    /\ \E private_key \in PrivateKeys,
          order_params \in OrderParams \cup {WorkedExampleOrder},
          network \in Networks, env \in Environments :
        Returned("generate_starkex_order_signature",
                 [private_key |-> private_key, order_params |-> order_params,
                  network |-> network, now |-> env.now],
                 generate_starkex_order_signature(private_key, order_params, network, env))

CallSettlementObject ==
    /\ pc = "idle"
    /\ \E private_key \in PrivateKeys, stark_public_key \in StarkPublicKeys,
          order_params \in SettlementOrders, collateral_position \in CollateralPositions,
          network \in Networks, env \in Environments :
        Returned("create_settlement_object",
                 [private_key |-> private_key, stark_public_key |-> stark_public_key,
                  order_params |-> order_params,
                  collateral_position |-> collateral_position,
                  network |-> network, now |-> env.now],
                 create_settlement_object(private_key, stark_public_key, order_params,
                                          collateral_position, network, env))

CallOnboardingSignature ==
    /\ pc = "idle"
    /\ \E private_key \in PrivateKeys, account_address \in WalletAddresses,
          stark_public_key \in StarkPublicKeys, network \in Networks,
          env \in Environments :
        Returned("generate_extended_onboarding_signature",
                 [private_key |-> private_key, account_address |-> account_address,
                  stark_public_key |-> stark_public_key, network |-> network,
                  now |-> env.now],
                 generate_extended_onboarding_signature(
                     private_key, account_address, stark_public_key, network, env))

CallKeyRegistrationSignature ==
    /\ pc = "idle"
    /\ \E private_key \in PrivateKeys, account_address \in WalletAddresses,
          stark_public_key \in StarkPublicKeys, network \in Networks,
          env \in Environments :
        Returned("generate_key_registration_signature",
                 [private_key |-> private_key, account_address |-> account_address,
                  stark_public_key |-> stark_public_key, network |-> network,
                  now |-> env.now],
                 generate_key_registration_signature(
                     private_key, account_address, stark_public_key, network, env))

\* the caller takes the returned value; the service keeps nothing of the call
Return ==
    /\ pc = "done"
    /\ pc' = "idle"
    /\ op' = "none"
    /\ args' = <<>>
    /\ hashCalls' = <<>>
    /\ signCalls' = <<>>
    /\ result' = <<>>
    /\ UNCHANGED <<STARK_CRYPTO_AVAILABLE, normVars, restVars>>

Next ==
    \/ CallOrderSignature
    \/ CallSettlementObject
    \/ CallOnboardingSignature
    \/ CallKeyRegistrationSignature
    \/ Return

Spec == Init /\ [][Next]_vars

-----------------------------------------------------------------------------
(* Properties of the signature service *)

OrderOps == {"generate_starkex_order_signature", "create_settlement_object"}

SignatureOps == {"generate_extended_onboarding_signature",
                 "generate_key_registration_signature",
                 "generate_starkex_order_signature"}

\* the order-hash call the last call made, when it made one
Hashed == op \in OrderOps /\ hashCalls # <<>>

\* what the caller asked for, as the handler reads it
GivenSide == Upper(Get(args.order_params, "side", PyText("BUY")).s)
GivenQty == PyDecimal(Get(args.order_params, "qty", PyDecimalText(0, 0))).val
GivenPrice == PyDecimal(Get(args.order_params, "price", PyDecimalText(0, 0))).val

\* C1: in every order hashed, a BUY has base amount > 0 and quote amount < 0,
\* a SELL has base amount < 0 and quote amount > 0, and the fee amount is >= 0.
C1_DirectionSigns ==
    Hashed =>
        LET kw == hashCalls[1].kw
        IN /\ GivenSide = "BUY" => (kw.base_amount > 0 /\ kw.quote_amount < 0)
           /\ GivenSide = "SELL" => (kw.base_amount < 0 /\ kw.quote_amount > 0)
           /\ kw.fee_amount >= 0

\* C2: the order-hash function is never called for a negative price, a zero
\* quantity or an amount at or above the field modulus.
C2_RangeChecked ==
    Hashed =>
        LET kw == hashCalls[1].kw
        IN /\ GivenPrice.m >= 0
           /\ GivenQty.m # 0
           /\ Abs(kw.base_amount) < ScaledFieldModulus
           /\ Abs(kw.quote_amount) < ScaledFieldModulus
           /\ kw.fee_amount < ScaledFieldModulus

\* the required keys order_params does not hold, or holds as None
Missing(order_params) ==
    {f \in OrderFields : f \notin DOMAIN order_params \/ order_params[f].t = "None"}

\* C3: when a required order field is absent or None the call fails and
\* nothing is hashed.
C3_MissingFieldRejected ==
    (op \in OrderOps /\ Missing(args.order_params) # {}) =>
        (~result.success /\ hashCalls = <<>>)

\* C4: the provider hashes exactly position_id, base_asset_id, base_amount,
\* quote_asset_id, quote_amount, fee_asset_id, fee_amount, expiration, salt,
\* user_public_key, in that order, then the domain name, version, chain id
\* and revision; each is the value the service computed for that element.
C4_OrderMessageElements ==
    Hashed =>
        LET kw == hashCalls[1].kw
            rs == hashCalls[1].rs
            given(f, default) == PyInteger(Get(args.order_params, f, default)).val
        IN /\ Len(rs) = 14
           /\ rs[1] = Str(given("position_id", PyInt(0)))
           /\ rs[2] = BTC_ASSET_ID_HEX
           /\ rs[3] = Str(kw.base_amount)
           /\ rs[4] = USDT_ASSET_ID_HEX
           /\ rs[5] = Str(kw.quote_amount)
           /\ rs[6] = USDT_ASSET_ID_HEX
           /\ rs[7] = Str(kw.fee_amount)
           /\ rs[8] = Str(given("expiry_timestamp", PyInt(args.now + DefaultExpirySeconds))
                          + ExpiryOffsetSeconds)
           /\ rs[9] = Str(given("nonce", PyInt(1)))
           /\ rs[10] = USER_PUBLIC_KEY_HEX
           /\ <<rs[11], rs[12], rs[13], rs[14]>> =
                  <<"Perpetuals", "v0", kw.domain_chain_id, "1">>
           /\ Abs(kw.base_amount) = Abs(DecToInt(DecMul(GivenQty, Dec(MicroUnits, 0))))

\* an order with distinct position id, expiry and nonce has been hashed
C4_Witness ==
    /\ op = "generate_starkex_order_signature"
    /\ hashCalls # <<>>
    /\ result.success
    /\ Missing(args.order_params) = {}
    /\ hashCalls[1].kw.base_amount = 1000
    /\ hashCalls[1].kw.quote_amount = -95000

\* C5: when the primary provider was found at import, every signature
\* stark_sign returns was computed by the primary provider.
C5_ProviderFixed ==
    \A i \in 1..Len(signCalls) :
        STARK_CRYPTO_AVAILABLE => signCalls[i].provider = "fast_stark_crypto"

\* C6: stark_sign never returns the components of the SHA-256 digest.
C6_NoPseudoSignature ==
    \A i \in 1..Len(signCalls) : signCalls[i].provider # "sha256"

\* the order hash could not be computed: no provider, or the provider raised
HashFault ==
    /\ op \in OrderOps
    /\ \/ hashCalls # <<>> /\ hashCalls[1].raised
       \/ ~STARK_CRYPTO_AVAILABLE /\ result.error = <<OrderFailurePrefix, "Exception">>

\* C7: when the order hash cannot be computed the call returns a failure and
\* stark_sign is not invoked.
C7_HashFaultStops ==
    /\ HashFault => (~result.success /\ signCalls = <<>>)
    /\ (op \in OrderOps /\ result.success) =>
           (STARK_CRYPTO_AVAILABLE /\ Len(hashCalls) = 1 /\ ~hashCalls[1].raised)

\* the provider raised on the hash of an otherwise acceptable order
C7_Witness ==
    /\ op = "generate_starkex_order_signature"
    /\ hashCalls # <<>>
    /\ hashCalls[1].raised
    /\ ~result.success

IsHexText(t) ==
    /\ HasPrefix(t, Prefix0x)
    /\ Len(t) > 2
    /\ \A i \in 3..Len(t) : t[i] \in LowerHexDigits

\* a message built of parts is empty when every part is
IsEmptyMessage(parts) == \A i \in 1..Len(parts) : parts[i] = ""

\* C8: a result of the three signing operations is either success with r and
\* s both non-empty hex texts and no error message, or failure with r and s
\* both empty and an error message.
C8_AllOrNothing ==
    op \in SignatureOps =>
        \/ /\ result.success
           /\ IsHexText(result.r) /\ IsHexText(result.s)
           /\ IsEmptyMessage(result.error)
        \/ /\ ~result.success
           /\ result.r = EmptyText /\ result.s = EmptyText
           /\ ~IsEmptyMessage(result.error)

\* an order signature has been returned
C8_Witness ==
    /\ op = "generate_starkex_order_signature"
    /\ result.success
    /\ result.r = <<"0", "x", "7", "f">>
    /\ result.s = <<"0", "x", "1">>

\* C9: create_settlement_object returns, on success, exactly the keys
\* signature (r and s of the signature just generated), starkKey (the
\* supplied key, normalized) and collateralPosition (as supplied); when the
\* order signing fails it returns failure, the empty object and the signing
\* error.
C9_SettlementObject ==
    op = "create_settlement_object" =>
        IF result.success
        THEN /\ Len(signCalls) = 1
             /\ DOMAIN result.settlement = {"signature", "starkKey", "collateralPosition"}
             /\ DOMAIN result.settlement.signature = {"r", "s"}
             /\ result.settlement.signature.r = Prefix0x \o signCalls[1].r
             /\ result.settlement.signature.s = Prefix0x \o signCalls[1].s
             /\ IsHexText(result.settlement.signature.r)
             /\ IsHexText(result.settlement.signature.s)
             /\ Ok(result.settlement.starkKey) = normalize_public_key(args.stark_public_key)
             /\ result.settlement.collateralPosition = args.collateral_position
             /\ IsEmptyMessage(result.error)
        ELSE /\ result.settlement = EmptyObject
             /\ ~IsEmptyMessage(result.error)
             /\ signCalls = <<>> => result.error[1] = OrderFailurePrefix

\* a settlement object has been built for a key written with a leading zero
C9_Witness ==
    /\ op = "create_settlement_object"
    /\ result.success
    /\ args.stark_public_key = <<"0", "x", "0", "2", "4", "e">>
    /\ result.settlement.starkKey = <<"0", "x", "2", "4", "e">>
    /\ result.settlement.collateralPosition = "500029"

\* the keyword arguments of the known-vector call of get_order_msg_hash
KnownVectorOrder ==
    [ position_id |-> 10002,
      base_asset_id |-> IntBase16(BTC_ASSET_ID_HEX).val,
      base_amount |-> 1000,
      quote_asset_id |-> IntBase16(USDT_ASSET_ID_HEX).val,
      quote_amount |-> -43445117,
      fee_asset_id |-> IntBase16(USDT_ASSET_ID_HEX).val,
      fee_amount |-> 21723,
      expiration |-> 1706836137,
      salt |-> 1473459052,
      user_public_key |-> IntBase16(USER_PUBLIC_KEY_HEX).val,
      domain_name |-> "Perpetuals",
      domain_version |-> "v0",
      domain_chain_id |-> "SN_SEPOLIA",
      domain_revision |-> "1" ]

\* C14: for the order of the worked example (position 10002, base amount 1000,
\* quote amount -43445117, fee amount 21723, expiration 1706836137, salt
\* 1473459052, the vector's asset ids and public key, domain Perpetuals / v0 /
\* SN_SEPOLIA / 1) the values the service hands to the hash function are
\* exactly the vector's values.
C14_KnownVector ==
    ( /\ op = "generate_starkex_order_signature"
      /\ args.order_params = WorkedExampleOrder
      /\ args.network = "sepolia"
      /\ hashCalls # <<>> ) =>
        hashCalls[1].kw = KnownVectorOrder

-----------------------------------------------------------------------------
(* Specification of the key normalisation alone *)

KeyAlphabet == {"0", "x", "X", "1", "a", "A", "z"}

KeyTexts == UNION {[1..n -> KeyAlphabet] : n \in 0..MaxKeyLen}

SigIdle ==
    /\ STARK_CRYPTO_AVAILABLE = TRUE
    /\ op = "none"
    /\ args = <<>>
    /\ hashCalls = <<>>
    /\ signCalls = <<>>
    /\ result = <<>>

InitNorm ==
    /\ pc = "idle"
    /\ SigIdle
    /\ nk_in = <<>>
    /\ nk_out = NormIdle
    /\ nk_again = NormIdle
    /\ RestIdle

\* one call of normalize_public_key, and a second call on what it returned
CallNormalize ==
    /\ pc = "idle"
    /\ \E k \in KeyTexts :
        LET out == normalize_public_key(k)
        IN /\ nk_in' = k
           /\ nk_out' = out
           /\ nk_again' = IF IsRaised(out) THEN out ELSE normalize_public_key(out.val)
    /\ pc' = "done"
    /\ UNCHANGED <<sigVars, restVars>>

\* the caller drops the returned value; the service keeps nothing of the call
ReturnNorm ==
    /\ pc = "done"
    /\ pc' = "idle"
    /\ nk_in' = <<>>
    /\ nk_out' = NormIdle
    /\ nk_again' = NormIdle
    /\ UNCHANGED <<sigVars, restVars>>

NextNorm == CallNormalize \/ ReturnNorm

SpecNorm == InitNorm /\ [][NextNorm]_vars

\* the other ways of writing the key that text s writes: the 0x prefix added
\* or removed, and up to MaxPad zeros put in front of the digits
Zeros(n) == [i \in 1..n |-> "0"]

KeyDigits(s) == IF HasPrefix(s, Prefix0x) THEN Drop(s, 2) ELSE s

\* s writes a key: hexadecimal digits, with or without the 0x prefix
IsKeyText(s) ==
    /\ KeyDigits(s) # <<>>
    /\ \A i \in 1..Len(KeyDigits(s)) : IsHexDigit(KeyDigits(s)[i])

TextualForms(s) ==
    UNION {{Zeros(n) \o KeyDigits(s), Prefix0x \o Zeros(n) \o KeyDigits(s)} :
           n \in 0..MaxPad}

\* C10: every textual form of one key (with or without 0x, with extra leading
\* zeros) normalizes to the same text, and normalizing that text again
\* returns it unchanged.
C10_NormalizeCanonical ==
    IsKeyText(nk_in) =>
        /\ ~IsRaised(nk_out)
        /\ \A t \in TextualForms(nk_in) : normalize_public_key(t) = nk_out
        /\ nk_again = nk_out

\* a key written with a prefix and leading zeros has been normalized
C10_Witness ==
    /\ nk_in = <<"0", "x", "0", "0", "A">>
    /\ nk_out = Ok(<<"0", "x", "a">>)
    /\ nk_again = nk_out

-----------------------------------------------------------------------------
(* cavos_integration.py: ExtendedOnboardingTransactionBuilder *)

\* ExtendedOnboardingTransactionBuilder.__init__: self.contracts
Contracts ==
    [ sepolia |->
          [ onboarding |-> "0x04718f5a0fc34cc1af16a1cdee98ffb20c31f5cd61d6ab07201858f4287c938d",
            account_registry |-> "0x1234567890abcdef1234567890abcdef12345678" ],
      mainnet |->
          [ onboarding |-> "0xabcdef1234567890abcdef1234567890abcdef12",
            account_registry |-> "0x987654321fedcba987654321fedcba9876543210" ] ]

\* self.contracts[self.network]["onboarding"]: a network the table does not
\* hold raises KeyError
OnboardingContract(network) ==
    IF network \in DOMAIN Contracts
    THEN Ok(Contracts[network].onboarding)
    ELSE Raised("KeyError")

\* the dataclass ExtendedOnboardingCall
ExtendedOnboardingCall(contract_address, entrypoint, calldata) ==
    [contract_address |-> contract_address, entrypoint |-> entrypoint,
     calldata |-> calldata]

TosAccepted == <<"1">>
RegisterAction == <<"R", "E", "G", "I", "S", "T", "E", "R">>

\* build_account_registration_call; network is self.network, now the clock
build_account_registration_call(network, now, stark_public_key, wallet_address, referral_code) ==
    LET calldata == <<stark_public_key, wallet_address, TosAccepted, Str(now),
                      RegisterAction>>
        contract == OnboardingContract(network)
    IN IF IsRaised(contract) THEN contract
       ELSE Ok(ExtendedOnboardingCall(
                contract.val, "register_account",
                IF Truthy(referral_code) THEN Append(calldata, referral_code.val)
                ELSE calldata))

\* build_key_registration_call
build_key_registration_call(network, stark_public_key, stark_signature_r, stark_signature_s) ==
    LET calldata == <<stark_public_key, stark_signature_r, stark_signature_s>>
        contract == OnboardingContract(network)
    IN IF IsRaised(contract) THEN contract
       ELSE Ok(ExtendedOnboardingCall(contract.val, "register_stark_key", calldata))

\* a variant that appends the key registration before the account registration
build_complete_onboarding_calls_key_first(network, now, stark_public_key, wallet_address, stark_signature_r, stark_signature_s, referral_code) ==
    LET account == build_account_registration_call(
                       network, now, stark_public_key, wallet_address, referral_code)
        key == build_key_registration_call(
                   network, stark_public_key, stark_signature_r, stark_signature_s)
    IN IF IsRaised(account) THEN account
       ELSE IF IsRaised(key) THEN key
       ELSE Ok(<<key.val, account.val>>)

\* build_complete_onboarding_calls
build_complete_onboarding_calls(network, now, stark_public_key, wallet_address, stark_signature_r, stark_signature_s, referral_code) ==
    LET account == build_account_registration_call(
                       network, now, stark_public_key, wallet_address, referral_code)
        key == build_key_registration_call(
                   network, stark_public_key, stark_signature_r, stark_signature_s)
    IN IF IsRaised(account) THEN account
       ELSE IF IsRaised(key) THEN key
       ELSE Ok(<<account.val, key.val>>)

-----------------------------------------------------------------------------
(* Specification of the onboarding call builder *)

\* signature components as a caller may pass them, the empty text included
SignatureTexts == { <<"0", "x", "7", "f">>, <<"0", "x", "1">>, <<>> }

ReferralCodes == { None, Some(<<>>), Some(<<"R", "E", "F", "7">>) }

InitBuilder ==
    /\ pc = "idle"
    /\ SigIdle
    /\ nk_in = <<>>
    /\ nk_out = NormIdle
    /\ nk_again = NormIdle
    /\ RestIdle

\* a builder made for a network, then one call of build_complete_onboarding_calls
CallBuildCompleteOnboardingCalls ==
    /\ pc = "idle"
    /\ \E network \in Networks, stark_public_key \in StarkPublicKeys,
          wallet_address \in WalletAddresses, stark_signature_r \in SignatureTexts,
          stark_signature_s \in SignatureTexts, referral_code \in ReferralCodes :
        /\ op' = "build_complete_onboarding_calls"
        /\ args' = [network |-> network, now |-> Now,
                    stark_public_key |-> stark_public_key,
                    wallet_address |-> wallet_address,
                    stark_signature_r |-> stark_signature_r,
                    stark_signature_s |-> stark_signature_s,
                    referral_code |-> referral_code]
        /\ result' = build_complete_onboarding_calls(
                         network, Now, stark_public_key, wallet_address,
                         stark_signature_r, stark_signature_s, referral_code)
    /\ pc' = "done"
    /\ UNCHANGED <<STARK_CRYPTO_AVAILABLE, hashCalls, signCalls, normVars, restVars>>

NextBuilder == CallBuildCompleteOnboardingCalls \/ Return

SpecBuilder == InitBuilder /\ [][NextBuilder]_vars

-----------------------------------------------------------------------------
(* Specification of one signing call made twice *)

\* most seconds that pass between the two invocations
MaxElapsed == 1

\* the order of the repository's signature test
TestOrder ==
    [ side |-> PyText("BUY"), qty |-> PyDecimalText(1, 3),
      price |-> PyDecimalText(95, 0), nonce |-> PyInt(7),
      position_id |-> PyInt(10002), expiry_timestamp |-> PyInt(1000),
      fee_rate |-> PyDecimalText(1, 3) ]

\* that order, and the same with no expiry and with no nonce
RepeatOrders ==
    { AsDict(TestOrder),
      AsDict([TestOrder EXCEPT !.expiry_timestamp = Absent]),
      AsDict([TestOrder EXCEPT !.nonce = Absent]) }

\* one invocation of a signing operation of the service
Invoke(name, a, env) ==
    CASE name = "generate_starkex_order_signature" ->
             generate_starkex_order_signature(a.private_key, a.order_params, a.network, env)
      [] name = "generate_extended_onboarding_signature" ->
             generate_extended_onboarding_signature(
                 a.private_key, a.account_address, a.stark_public_key, a.network, env)
      [] name = "generate_key_registration_signature" ->
             generate_key_registration_signature(
                 a.private_key, a.account_address, a.stark_public_key, a.network, env)

\* the operation is invoked, and invoked again with the same arguments after
\* elapsed seconds; the libraries behave the same both times
ReturnedTwice(name, arguments, env, elapsed) ==
    LET first == Invoke(name, arguments, env)
        later == [env EXCEPT !.now = env.now + elapsed]
        second == Invoke(name, arguments, later)
    IN /\ pc' = "done"
       /\ op' = name
       /\ args' = arguments
       /\ hashCalls' = first.hashCalls
       /\ signCalls' = first.signCalls
       /\ result' = first.result
       /\ again' = [now |-> later.now, result |-> second.result,
                    hashCalls |-> second.hashCalls, signCalls |-> second.signCalls]
       /\ UNCHANGED <<STARK_CRYPTO_AVAILABLE, normVars, serviceVars, tableVars, tasks, payload,
                      routeVars>>

CallOrderSignatureTwice ==
    /\ pc = "idle"
    /\ \E private_key \in PrivateKeys, order_params \in RepeatOrders,
          network \in Networks, env \in Environments, elapsed \in 0..MaxElapsed :
        ReturnedTwice("generate_starkex_order_signature",
                      [private_key |-> private_key, order_params |-> order_params,
                       network |-> network, now |-> env.now],
                      env, elapsed)

CallOnboardingSignatureTwice ==
    /\ pc = "idle"
    /\ \E private_key \in PrivateKeys, account_address \in WalletAddresses,
          stark_public_key \in StarkPublicKeys, network \in Networks,
          env \in Environments, elapsed \in 0..MaxElapsed :
        ReturnedTwice("generate_extended_onboarding_signature",
                      [private_key |-> private_key, account_address |-> account_address,
                       stark_public_key |-> stark_public_key, network |-> network,
                       now |-> env.now],
                      env, elapsed)

CallKeyRegistrationSignatureTwice ==
    /\ pc = "idle"
    /\ \E private_key \in PrivateKeys, account_address \in WalletAddresses,
          stark_public_key \in StarkPublicKeys, network \in Networks,
          env \in Environments, elapsed \in 0..MaxElapsed :
        ReturnedTwice("generate_key_registration_signature",
                      [private_key |-> private_key, account_address |-> account_address,
                       stark_public_key |-> stark_public_key, network |-> network,
                       now |-> env.now],
                      env, elapsed)

\* the caller takes both returned values
ReturnTwice ==
    /\ pc = "done"
    /\ pc' = "idle"
    /\ op' = "none"
    /\ args' = <<>>
    /\ hashCalls' = <<>>
    /\ signCalls' = <<>>
    /\ result' = <<>>
    /\ again' = NotRepeated
    /\ UNCHANGED <<STARK_CRYPTO_AVAILABLE, normVars, serviceVars, tableVars, tasks, payload,
                   routeVars>>

NextRepeat ==
    \/ CallOrderSignatureTwice
    \/ CallOnboardingSignatureTwice
    \/ CallKeyRegistrationSignatureTwice
    \/ ReturnTwice

SpecRepeat == Init /\ [][NextRepeat]_vars

\* the element sequences handed to the hash functions during one invocation
HashedElements(calls) == [i \in 1..Len(calls) |-> calls[i].rs]

\* C12: two invocations of one signing operation with the same parameters and
\* the same private key hash the same sequence of elements, whatever the
\* clock readings of the two invocations.
C12_HashDeterministic ==
    (pc = "done" /\ op \in SignatureOps) =>
        HashedElements(again.hashCalls) = HashedElements(hashCalls)

-----------------------------------------------------------------------------
(* fast_stark_crypto/lib.py: get_public_key, sign, verify *)

\* largest private key and message hash given to the wrapper
MaxScalar == 8

\* The ints that pass through the wrapper: a number n written by the caller,
\* the public key of private key k, and the components r and s of the
\* signature of message m under private key k. The curve arithmetic of the
\* native library is not evaluated; the three kinds are kept apart.
PlainInt(n) == [kind |-> "int", k |-> n, m |-> 0]
PublicKeyOf(k) == [kind |-> "public_key", k |-> k, m |-> 0]
SignatureR(k, m) == [kind |-> "r", k |-> k, m |-> m]
SignatureS(k, m) == [kind |-> "s", k |-> k, m |-> m]

\* hex(n): the text that writes n in base 16
HexText(n) == [base |-> 16, of |-> n]
\* the decimal text the native functions return for n
DecimalText(n) == [base |-> 10, of |-> n]
\* int(text): the number a decimal text writes
IntOfDecimalText(t) == IF t.base = 10 THEN Ok(t.of) ELSE Raised("ValueError")
\* the number the native functions read from a hex text
FeltOfHexText(t) == t.of

\* native rs_get_public_key: the public key of the private key given in hex
rs_get_public_key(private_key_hex) ==
    DecimalText(PublicKeyOf(FeltOfHexText(private_key_hex).k))

\* native rs_sign_message: the signature of the message under the private key
rs_sign_message(private_key_hex, msg_hash_hex) ==
    LET k == FeltOfHexText(private_key_hex).k
        m == FeltOfHexText(msg_hash_hex).k
    IN <<DecimalText(SignatureR(k, m)), DecimalText(SignatureS(k, m))>>

\* native rs_verify_signature: true exactly when (r, s) is the signature of
\* the message under the private key of the public key given
rs_verify_signature(public_key_hex, msg_hash_hex, r_hex, s_hex) ==
    LET pub == FeltOfHexText(public_key_hex)
        msg == FeltOfHexText(msg_hash_hex)
    IN /\ pub.kind = "public_key"
       /\ msg.kind = "int"
       /\ FeltOfHexText(r_hex) = SignatureR(pub.k, msg.k)
       /\ FeltOfHexText(s_hex) = SignatureS(pub.k, msg.k)

\* lib.get_public_key(private_key)
get_public_key(private_key) ==
    IntOfDecimalText(rs_get_public_key(HexText(private_key))).val

\* lib.sign(private_key, msg_hash)
sign(private_key, msg_hash) ==
    LET rs == rs_sign_message(HexText(private_key), HexText(msg_hash))
    IN <<IntOfDecimalText(rs[1]).val, IntOfDecimalText(rs[2]).val>>

\* lib.verify(public_key, msg_hash, r, s)
verify(public_key, msg_hash, r, s) ==
    rs_verify_signature(HexText(public_key), HexText(msg_hash), HexText(r), HexText(s))
        = TRUE

\* test_starknet_simple.py, tests 1 to 3
test_fast_stark_crypto_functions(private_key, message_hash) ==
    LET public_key == get_public_key(private_key)
        signature == sign(private_key, message_hash)
        is_valid == verify(public_key, message_hash, signature[1], signature[2])
    IN [public_key |-> public_key, r |-> signature[1], s |-> signature[2],
        is_valid |-> is_valid]

\* test_consolidated_wrapper.py, tests 1 to 3
test_consolidated_wrapper(private_key, message_hash) ==
    LET public_key == get_public_key(private_key)
        signature == sign(message_hash, private_key)
        is_valid == verify(message_hash, signature[1], signature[2], public_key)
    IN [public_key |-> public_key, r |-> signature[1], s |-> signature[2],
        is_valid |-> is_valid]

-----------------------------------------------------------------------------
(* Specification of the wrapper as its test scripts call it *)

Scalars == {PlainInt(n) : n \in 1..MaxScalar}

InitWrapper ==
    /\ pc = "idle"
    /\ SigIdle
    /\ nk_in = <<>>
    /\ nk_out = NormIdle
    /\ nk_again = NormIdle
    /\ RestIdle

RunTestFastStarkCryptoFunctions ==
    /\ pc = "idle"
    /\ \E private_key \in Scalars, message_hash \in Scalars :
        /\ op' = "test_fast_stark_crypto_functions"
        /\ args' = [private_key |-> private_key, message_hash |-> message_hash]
        /\ result' = test_fast_stark_crypto_functions(private_key, message_hash)
    /\ pc' = "done"
    /\ UNCHANGED <<STARK_CRYPTO_AVAILABLE, hashCalls, signCalls, normVars, restVars>>

RunTestConsolidatedWrapper ==
    /\ pc = "idle"
    /\ \E private_key \in Scalars, message_hash \in Scalars :
        /\ op' = "test_consolidated_wrapper"
        /\ args' = [private_key |-> private_key, message_hash |-> message_hash]
        /\ result' = test_consolidated_wrapper(private_key, message_hash)
    /\ pc' = "done"
    /\ UNCHANGED <<STARK_CRYPTO_AVAILABLE, hashCalls, signCalls, normVars, restVars>>

NextWrapper ==
    \/ RunTestFastStarkCryptoFunctions
    \/ RunTestConsolidatedWrapper
    \/ Return

SpecWrapper == InitWrapper /\ [][NextWrapper]_vars

WrapperTests == {"test_fast_stark_crypto_functions", "test_consolidated_wrapper"}

\* C13: for every private key and message hash, each test script's verify
\* call, made on the (r, s) its sign call returned, the public key of the
\* private key and the same message hash, returns true.
C13_SignVerifyRoundTrip ==
    op \in WrapperTests => result.is_valid

-----------------------------------------------------------------------------
(* Properties of the onboarding signatures *)

OnboardingOps == {"generate_extended_onboarding_signature",
                  "generate_key_registration_signature"}

\* C15: given a well-formed hexadecimal private key, wallet address and STARK
\* public key, generate_extended_onboarding_signature and
\* generate_key_registration_signature return success with r and s that
\* validate_signature_components accepts.
C15_OnboardingSignaturesSucceed ==
    ( /\ op \in OnboardingOps
      /\ IsKeyText(args.private_key)
      /\ IsKeyText(args.account_address)
      /\ IsKeyText(args.stark_public_key) ) =>
        /\ result.success
        /\ validate_signature_components(result.r, result.s)

-----------------------------------------------------------------------------
(* Specification of concurrent calls on the one service instance *)

\* calls that may be in progress at the same time
NumTasks == 2

\* a variant in which a call takes its signing domain from the call that
\* arrived before it instead of from its own network argument
order_signature_locals_first_network(private_key, order_params, network, env) ==
    LET private_key_int == PrivateKeyInt(private_key)
        nonce == PyInteger(Get(order_params, "nonce", PyInt(1)))
        raised == FirstRaised(<<private_key_int, nonce>>)
    IN IF raised # "none"
       THEN [raised |-> raised, kw |-> <<>>, private_key_int |-> <<>>]
       ELSE [raised |-> "none",
             kw |-> OrderHashArguments(
                        PyUpper(Get(order_params, "side", PyText("BUY"))).val,
                        PyDecimal(Get(order_params, "qty", PyDecimalText(0, 0))).val,
                        PyDecimal(Get(order_params, "price", PyDecimalText(0, 0))).val,
                        nonce.val,
                        PyInteger(Get(order_params, "position_id", PyInt(0))).val,
                        PyInteger(Get(order_params, "expiry_timestamp",
                                      PyInt(env.now + DefaultExpirySeconds))).val,
                        PyDecimal(Get(order_params, "fee_rate", PyDecimalText(1, 3))).val,
                        "sepolia"),
             private_key_int |-> private_key_int.val]

\* generate_starkex_order_signature, lines 313-371: the locals a call holds
\* when it is about to ask the provider for the hash, or the exception raised
order_signature_locals(private_key, order_params, network, env) ==
    LET private_key_int == PrivateKeyInt(private_key)
        side == PyUpper(Get(order_params, "side", PyText("BUY")))
        qty == PyDecimal(Get(order_params, "qty", PyDecimalText(0, 0)))
        price == PyDecimal(Get(order_params, "price", PyDecimalText(0, 0)))
        nonce == PyInteger(Get(order_params, "nonce", PyInt(1)))
        position_id == PyInteger(Get(order_params, "position_id", PyInt(0)))
        expiry == PyInteger(Get(order_params, "expiry_timestamp",
                                PyInt(env.now + DefaultExpirySeconds)))
        fee_rate == PyDecimal(Get(order_params, "fee_rate", PyDecimalText(1, 3)))
        raised == FirstRaised(<<private_key_int, side, qty, price, nonce,
                                position_id, expiry, fee_rate>>)
    IN IF raised # "none"
       THEN [raised |-> raised, kw |-> <<>>, private_key_int |-> <<>>]
       ELSE [raised |-> "none",
             kw |-> OrderHashArguments(side.val, qty.val, price.val, nonce.val,
                                       position_id.val, expiry.val, fee_rate.val,
                                       network),
             private_key_int |-> private_key_int.val]

IdleTask ==
    [pc |-> "idle", op |-> "none", args |-> <<>>, env |-> <<>>, locals |-> <<>>,
     out |-> <<>>, overlapped |-> FALSE]

TaskIds == 1..NumTasks

\* the orders, networks and library behaviours of the concurrent calls
TaskOrders == {AsDict(TestOrder), AsDict([TestOrder EXCEPT !.nonce = Absent])}
TaskNetworks == {"sepolia", "mainnet"}
TaskEnvironments ==
    {e \in Environments : ~e.primary_raises /\ ~e.x10_raises /\ e.r = <<"1">>}

InitTasks ==
    /\ STARK_CRYPTO_AVAILABLE \in BOOLEAN
    /\ pc = "idle"
    /\ op = "none"
    /\ args = <<>>
    /\ hashCalls = <<>>
    /\ signCalls = <<>>
    /\ result = <<>>
    /\ nk_in = <<>>
    /\ nk_out = NormIdle
    /\ nk_again = NormIdle
    /\ chain_ids = InitialChainIds
    /\ signing_domains = InitialSigningDomains
    /\ again = NotRepeated
    /\ tasks = [t \in TaskIds |-> IdleTask]
    /\ ServicesIdle
    /\ payload = <<>>
    /\ checked = {}
    /\ onboarding_calls = <<>>
    /\ submitted = <<>>

OnlyTasks ==
    UNCHANGED <<STARK_CRYPTO_AVAILABLE, pc, op, args, hashCalls, signCalls, result,
                normVars, serviceVars, tableVars, again, payload, routeVars>>

\* a call of generate_starkex_order_signature starts and runs up to the
\* provider's hash; an exception on the way ends the call with a failure
TaskOrderExtract(t) ==
    /\ tasks[t].pc = "idle"
    /\ \E private_key \in PrivateKeys, order_params \in TaskOrders,
          network \in TaskNetworks, env \in TaskEnvironments :
        LET a == [private_key |-> private_key, order_params |-> order_params,
                  network |-> network, now |-> env.now]
            locals == order_signature_locals(private_key, order_params, network, env)
            started == [IdleTask EXCEPT !.op = "generate_starkex_order_signature",
                                        !.args = a, !.env = env]
        IN tasks' = [tasks EXCEPT ![t] =
               IF locals.raised # "none"
               THEN [started EXCEPT
                        !.pc = "returned",
                        !.out = [NoCalls EXCEPT !.result =
                                    Failure(OrderFailurePrefix, locals.raised)]]
               ELSE [started EXCEPT !.pc = "extracted", !.locals = locals]]
    /\ OnlyTasks

\* the call goes on: the provider's hash, stark_sign, the returned tuple
TaskOrderHashAndSign(t) ==
    /\ tasks[t].pc = "extracted"
    /\ LET call == tasks[t]
       IN tasks' = [tasks EXCEPT ![t] =
              [call EXCEPT
                  !.pc = "returned",
                  !.out = order_signature_after_hashing(
                              call.locals.kw, call.locals.private_key_int, call.env),
                  !.locals = <<>>,
                  !.overlapped = \E u \in TaskIds \ {t} : tasks[u].pc = "extracted"]]
    /\ OnlyTasks

\* a call of generate_extended_onboarding_signature: it makes no call outside
\* the module before it returns
TaskOnboarding(t) ==
    /\ tasks[t].pc = "idle"
    /\ \E private_key \in PrivateKeys, env \in TaskEnvironments :
        LET a == [private_key |-> private_key, account_address |-> <<"0", "x", "a", "1">>,
                  stark_public_key |-> <<"2", "4", "E">>, network |-> "sepolia",
                  now |-> env.now]
        IN tasks' = [tasks EXCEPT ![t] =
               [IdleTask EXCEPT
                   !.pc = "returned",
                   !.op = "generate_extended_onboarding_signature",
                   !.args = a, !.env = env,
                   !.out = generate_extended_onboarding_signature(
                               a.private_key, a.account_address, a.stark_public_key,
                               a.network, env)]]
    /\ OnlyTasks

\* a call of generate_key_registration_signature, likewise
TaskKeyRegistration(t) ==
    /\ tasks[t].pc = "idle"
    /\ \E private_key \in PrivateKeys, env \in TaskEnvironments :
        LET a == [private_key |-> private_key, account_address |-> <<"0", "x", "a", "1">>,
                  stark_public_key |-> <<"2", "4", "E">>, network |-> "sepolia",
                  now |-> env.now]
        IN tasks' = [tasks EXCEPT ![t] =
               [IdleTask EXCEPT
                   !.pc = "returned",
                   !.op = "generate_key_registration_signature",
                   !.args = a, !.env = env,
                   !.out = generate_key_registration_signature(
                               a.private_key, a.account_address, a.stark_public_key,
                               a.network, env)]]
    /\ OnlyTasks

\* the caller takes the returned value
TaskReturn(t) ==
    /\ tasks[t].pc = "returned"
    /\ tasks' = [tasks EXCEPT ![t] = IdleTask]
    /\ OnlyTasks

NextTasks ==
    \E t \in TaskIds :
        \/ TaskOrderExtract(t)
        \/ TaskOrderHashAndSign(t)
        \/ TaskOnboarding(t)
        \/ TaskKeyRegistration(t)
        \/ TaskReturn(t)

SpecTasks == InitTasks /\ [][NextTasks]_vars

-----------------------------------------------------------------------------
(* signature_service.py: _get_asset_ids_for_market *)

BTC == <<"B", "T", "C">>
USDT == <<"U", "S", "D", "T">>
ETH == <<"E", "T", "H">>
USD == <<"U", "S", "D">>

ETH_ASSET_ID_HEX == <<"0","x","4","5","5","4","4","8","2","d","3","6","0","0","0","0","0","0","0","0","0","0","0","0","0","0","0","0","0","0","0","0">>

\* str.upper() on the letters of the market names
UpperChar(c) ==
    CASE c = "b" -> "B" [] c = "t" -> "T" [] c = "c" -> "C" [] c = "e" -> "E"
      [] c = "h" -> "H" [] c = "u" -> "U" [] c = "s" -> "S" [] c = "d" -> "D"
      [] OTHER -> c

UpperText(t) == [i \in 1..Len(t) |-> UpperChar(t[i])]

\* str.split('-'): the texts between the dashes
RECURSIVE SplitDash(_)
SplitDash(t) ==
    LET dashes == {i \in 1..Len(t) : t[i] = "-"}
    IN IF dashes = {} THEN <<t>>
       ELSE LET first == CHOOSE i \in dashes : \A j \in dashes : i <= j
            IN <<SubSeq(t, 1, first - 1)>> \o SplitDash(Drop(t, first))

\* asset_mappings[network]: the two networks hold the same four entries
AssetTable ==
    [ symbol \in {BTC, USDT, ETH, USD} |->
        CASE symbol = BTC -> IntBase16(BTC_ASSET_ID_HEX).val
          [] symbol = ETH -> IntBase16(ETH_ASSET_ID_HEX).val
          [] OTHER -> IntBase16(USDT_ASSET_ID_HEX).val ]

asset_mappings == [sepolia |-> AssetTable, mainnet |-> AssetTable]

\* ExtendedSignatureService._get_asset_ids_for_market
get_asset_ids_for_market(market, network) ==
    LET parts == SplitDash(UpperText(market))
        network_mappings == IF network \in DOMAIN asset_mappings
                            THEN asset_mappings[network]
                            ELSE asset_mappings["sepolia"]
        id_of(symbol, default) == IF symbol \in DOMAIN network_mappings
                                  THEN network_mappings[symbol]
                                  ELSE network_mappings[default]
    IN IF Len(parts) = 1
       THEN Ok(<<id_of(parts[1], BTC), id_of(USDT, USDT)>>)
       ELSE IF Len(parts) = 2
       THEN Ok(<<id_of(parts[1], BTC), id_of(parts[2], USDT)>>)
       ELSE Raised("ValueError")

-----------------------------------------------------------------------------
(* scripts-test/test_starkex_signatures.py: the caller of the order signing *)

\* the lifetime the caller gives its order: expiry_timestamp = now + 3600
OrderLifetimeSeconds == 3600
MillisPerSecond == 1000

\* order_params as the test scripts build it
ClientOrderParams(market, vault_id, now) ==
    [ market |-> PyText(market),
      side |-> PyText("BUY"),
      qty |-> PyDecimalText(1, 3),
      price |-> PyDecimalText(950000, 1),
      order_type |-> PyText("LIMIT"),
      nonce |-> PyInt(now),
      vault_id |-> PyInt(vault_id),
      position_id |-> PyInt(vault_id),
      expiry_timestamp |-> PyInt(now + OrderLifetimeSeconds),
      fee_rate |-> PyDecimalText(1, 3) ]

\* test_starkex_order_signature
test_starkex_order_signature(private_key, market, vault_id, network, env) ==
    LET order_params == ClientOrderParams(market, vault_id, env.now)
    IN [ order_params |-> order_params,
         made |-> generate_starkex_order_signature(private_key, order_params, network, env),
         api_order_example |-> <<>> ]

\* test_settlement_object: the settlement object, then the API order around it
test_settlement_object(private_key, public_key, market, vault_id, network, env) ==
    LET order_params == ClientOrderParams(market, vault_id, env.now)
        made == create_settlement_object(private_key, public_key, order_params,
                                         Str(vault_id), network, env)
    IN [ order_params |-> order_params,
         made |-> made,
         api_order_example |->
             IF made.result.success
             THEN [ id |-> "test-order-123",
                    market |-> market,
                    side |-> "BUY",
                    expiryEpochMillis |-> order_params.expiry_timestamp.m * MillisPerSecond,
                    nonce |-> Str(order_params.nonce.m),
                    settlement |-> made.result.settlement ]
             ELSE <<>> ]

Markets == { <<"B","T","C","-","U","S","D">>, <<"E","T","H","-","U","S","D">>,
             <<"e","t","h","-","u","s","d","t">>, <<"B","T","C">> }
VaultIds == {500029}

\* the clock readings at which a test script runs
ClientEnvironments ==
    {[e EXCEPT !.now = Now + d] : e \in Environments, d \in 0..MaxElapsed}

RanTest(name, arguments, ran) ==
    /\ pc' = "done"
    /\ op' = name
    /\ args' = arguments
    /\ hashCalls' = ran.made.hashCalls
    /\ signCalls' = ran.made.signCalls
    /\ result' = ran.made.result
    /\ payload' = ran.api_order_example
    /\ UNCHANGED <<STARK_CRYPTO_AVAILABLE, normVars, serviceVars, tableVars, again, tasks, routeVars>>

RunTestOrderSignature ==
    /\ pc = "idle"
    /\ \E private_key \in PrivateKeys, market \in Markets, vault_id \in VaultIds,
          network \in Networks, env \in ClientEnvironments :
        LET ran == test_starkex_order_signature(private_key, market, vault_id, network, env)
        IN RanTest("test_starkex_order_signature",
                   [private_key |-> private_key, order_params |-> ran.order_params,
                    market |-> market, network |-> network, now |-> env.now],
                   ran)

RunTestSettlementObject ==
    /\ pc = "idle"
    /\ \E private_key \in PrivateKeys, public_key \in StarkPublicKeys,
          market \in Markets, vault_id \in VaultIds, network \in Networks,
          env \in ClientEnvironments :
        LET ran == test_settlement_object(private_key, public_key, market, vault_id,
                                          network, env)
        IN RanTest("test_settlement_object",
                   [private_key |-> private_key, order_params |-> ran.order_params,
                    market |-> market, network |-> network, now |-> env.now],
                   ran)

\* the script ends
EndTest ==
    /\ pc = "done"
    /\ pc' = "idle"
    /\ op' = "none"
    /\ args' = <<>>
    /\ hashCalls' = <<>>
    /\ signCalls' = <<>>
    /\ result' = <<>>
    /\ payload' = <<>>
    /\ UNCHANGED <<STARK_CRYPTO_AVAILABLE, normVars, serviceVars, tableVars, again, tasks, routeVars>>

NextClient == RunTestOrderSignature \/ RunTestSettlementObject \/ EndTest

SpecClient == Init /\ [][NextClient]_vars

ClientTests == {"test_starkex_order_signature", "test_settlement_object"}

C19_AssetIdsFromTable ==
    (op \in ClientTests /\ hashCalls # <<>>) =>
        LET ids == get_asset_ids_for_market(args.market, args.network)
        IN /\ ~IsRaised(ids)
           /\ <<hashCalls[1].kw.base_asset_id, hashCalls[1].kw.quote_asset_id>> = ids.val

-----------------------------------------------------------------------------
(* api/v1/users/routes.py: onboard_extended_with_starknet_route *)

\* (success, message, transaction_hash) of execute_extended_onboarding_transaction,
\* with whether store_extended_credentials raises afterwards
Executions ==
    { [success |-> TRUE, tx_hash |-> Some(<<"0", "x", "7", "x">>), store_raises |-> FALSE],
      [success |-> TRUE, tx_hash |-> Some(<<"0", "x", "7", "x">>), store_raises |-> TRUE],
      [success |-> TRUE, tx_hash |-> None, store_raises |-> FALSE],
      [success |-> FALSE, tx_hash |-> None, store_raises |-> FALSE] }

\* ExtendedOnboardingResponse
ExtendedOnboardingResponse(success, message, transaction_hash) ==
    Ok([success |-> success, message |-> message, setup_completed |-> success,
        transaction_hash |-> transaction_hash])

NothingBuilt(response, accepted) ==
    [response |-> response, checked |-> accepted, onboarding_calls |-> <<>>,
     submitted |-> <<>>]

\* the route: user lookup, the two signatures, the check of the components,
\* the calls, their execution through Cavos, the confirmation and the response.
\* registration and key_registration are what the signature service returned,
\* executed what Cavos and the credential store did
onboard_extended_with_starknet_route(user_found, wallet_data, registration, key_registration, executed, now) ==
    IF ~user_found
    THEN NothingBuilt(Raised("HTTPException"), {})
    ELSE IF ~registration.success
    THEN NothingBuilt(ExtendedOnboardingResponse(
             FALSE, <<"Signature generation failed: ", registration.error>>, None), {})
    ELSE IF ~key_registration.success
    THEN NothingBuilt(ExtendedOnboardingResponse(
             FALSE, <<"Key signature generation failed: ", key_registration.error>>, None), {})
    ELSE IF ~validate_signature_components(registration.r, registration.s)
    THEN NothingBuilt(ExtendedOnboardingResponse(
             FALSE, <<"Generated signatures are invalid">>, None), {})
    ELSE
      LET accepted == {<<registration.r, registration.s>>}
          built == build_complete_onboarding_calls(
                       wallet_data.network, now, wallet_data.public_key,
                       wallet_data.address, key_registration.r, key_registration.s,
                       wallet_data.referral_code)
      IN IF IsRaised(built)
         THEN NothingBuilt(ExtendedOnboardingResponse(
                  FALSE, <<"Onboarding failed: ", built.exc>>, None), accepted)
         ELSE
           [ response |->
                 IF executed.success /\ Truthy(executed.tx_hash)
                 THEN IF executed.store_raises
                      THEN ExtendedOnboardingResponse(
                               FALSE, <<"Onboarding failed: ", "Exception">>, None)
                      ELSE ExtendedOnboardingResponse(
                               TRUE, <<"Extended Exchange account created successfully with verified signatures. Transaction ", "ACCEPTED_ON_L2">>,
                               executed.tx_hash)
                 ELSE ExtendedOnboardingResponse(
                          FALSE, <<"Transaction execution failed: ">>, None),
             checked |-> accepted,
             onboarding_calls |-> built.val,
             submitted |-> built.val ]

\* an r or s text of 58 hex digits after the prefix
LongHex(digit) == Prefix0x \o [i \in 1..58 |-> digit]

RouteSignatureTexts == { LongHex("a"), <<"0", "x", "1">> }

\* what the route can be handed by a signature call: what the handler
\* returns as it stands, and the success tuples of its return type
SignatureOutcomes(call) ==
    {call.result} \cup {Success(r, s) : r, s \in RouteSignatureTexts}

WalletData ==
    [ address : WalletAddresses, network : Networks, public_key : StarkPublicKeys,
      private_key : PrivateKeys, referral_code : {None, Some(<<"R", "E", "F", "7">>)} ]

CallOnboardRoute ==
    /\ pc = "idle"
    /\ \E user_found \in BOOLEAN, wallet_data \in WalletData, env \in Environments,
          executed \in Executions :
        \E registration \in SignatureOutcomes(generate_extended_onboarding_signature(
               wallet_data.private_key, wallet_data.address, wallet_data.public_key,
               wallet_data.network, env)),
           key_registration \in SignatureOutcomes(generate_key_registration_signature(
               wallet_data.private_key, wallet_data.address, wallet_data.public_key,
               wallet_data.network, env)) :
            LET ran == onboard_extended_with_starknet_route(
                           user_found, wallet_data, registration, key_registration,
                           executed, env.now)
            IN /\ op' = "onboard_extended_with_starknet_route"
               /\ args' = [wallet_data |-> wallet_data, registration |-> registration,
                           key_registration |-> key_registration]
               /\ result' = ran.response
               /\ checked' = ran.checked
               /\ onboarding_calls' = ran.onboarding_calls
               /\ submitted' = ran.submitted
    /\ pc' = "done"
    /\ UNCHANGED <<STARK_CRYPTO_AVAILABLE, hashCalls, signCalls, normVars, serviceVars, tableVars,
                   again, tasks, payload>>

\* the response goes out
RouteReturn ==
    /\ pc = "done"
    /\ pc' = "idle"
    /\ op' = "none"
    /\ args' = <<>>
    /\ result' = <<>>
    /\ checked' = {}
    /\ onboarding_calls' = <<>>
    /\ submitted' = <<>>
    /\ UNCHANGED <<STARK_CRYPTO_AVAILABLE, hashCalls, signCalls, normVars, serviceVars, tableVars,
                   again, tasks, payload>>

NextRoute == CallOnboardRoute \/ RouteReturn

SpecRoute == Init /\ [][NextRoute]_vars

-----------------------------------------------------------------------------
(* Properties of the onboarding messages *)

\* C21: the account registration message is hashed over exactly the six
\* elements account_index, wallet address as felt, STARK public key as felt,
\* tos_accepted, timestamp and the selector of REGISTER, in that order; the key
\* registration message is hashed over the pair (wallet address as felt,
\* STARK public key as felt) alone.
C21_OnboardingMessageElements ==
    ( /\ op \in OnboardingOps
      /\ IsKeyText(args.private_key)
      /\ IsKeyText(args.account_address)
      /\ IsKeyText(args.stark_public_key) ) =>
        /\ Len(hashCalls) = 1
        /\ hashCalls[1].rs =
             IF op = "generate_extended_onboarding_signature"
             THEN << <<"0">>, IntBase16(args.account_address).val,
                     IntBase16(args.stark_public_key).val, <<"1">>, Str(args.now),
                     ElementsDigest(<<"REGISTER">>) >>
             ELSE << IntBase16(args.account_address).val,
                     IntBase16(args.stark_public_key).val >>

-----------------------------------------------------------------------------
(* Properties of the order message *)

\* C22: the fee amount hashed into an order message is
\* round(|quote_amount| * fee_rate) for every quote amount and fee rate, and it
\* is never negative, a zero or negative fee_rate included.
C22_FeeAmount ==
    (op = "generate_starkex_order_signature" /\ hashCalls # <<>>) =>
        LET kw == hashCalls[1].kw
            fee_rate == PyDecimal(Get(args.order_params, "fee_rate", PyDecimalText(1, 3))).val
        IN /\ kw.fee_amount = DecRound(DecMul(Dec(Abs(kw.quote_amount), 0), fee_rate))
           /\ kw.fee_amount >= 0

\* C23: the salt hashed for an order signing request is the request's nonce,
\* and two requests are hashed with the same salt only when the caller gave
\* the same nonce to both: two requests that carry no nonce have different
\* salts.
C23_FreshSalt ==
    ( /\ pc = "done"
      /\ op = "generate_starkex_order_signature"
      /\ hashCalls # <<>>
      /\ again.hashCalls # <<>> ) =>
        IF "nonce" \in DOMAIN args.order_params
        THEN /\ hashCalls[1].kw.salt = args.order_params.nonce.m
             /\ again.hashCalls[1].kw.salt = args.order_params.nonce.m
        ELSE hashCalls[1].kw.salt # again.hashCalls[1].kw.salt

\* C24: for every settlement object create_settlement_object returns, the
\* user_public_key hashed into the order message is the key reported as
\* starkKey, the public key of the private key that signed.
C24_SignerKeyHashed ==
    (op = "create_settlement_object" /\ result.success) =>
        /\ hashCalls # <<>>
        /\ Hex(hashCalls[1].kw.user_public_key) = result.settlement.starkKey

\* C25: the chain id in the signing domain of an order message is the entry
\* of the service's chain_ids table for the requested network, for sepolia and
\* for mainnet, and no message is hashed for a network the table does not hold.
C25_DomainChainId ==
    (op \in OrderOps /\ hashCalls # <<>>) =>
        /\ args.network \in DOMAIN chain_ids
        /\ hashCalls[1].kw.domain_chain_id = chain_ids[args.network]

\* C26: validate_signature_components accepts every signature the service
\* emits: whenever an order signing returns success, on any signing path and
\* for any magnitude of r and s, the check of the returned r and s is True.
C26_EmittedSignatureValidates ==
    (op = "generate_starkex_order_signature" /\ result.success) =>
        validate_signature_components(result.r, result.s)

-----------------------------------------------------------------------------
(* services/extended/stark_crypto.py: StarkCrypto *)

\* bytes.fromhex(text): pairs of hex digits, either case; otherwise ValueError
BytesFromHex(text) ==
    IF Len(text) % 2 = 1 \/ \E i \in 1..Len(text) : ~IsHexDigit(text[i])
    THEN Raised("ValueError")
    ELSE Ok([i \in 1..Len(text) |-> Lower(text[i])])

\* the hex text of a digest, kept symbolic: the algorithm, its key, its data
DigestHex(alg, key, data) == [alg |-> alg, key |-> key, data |-> data]

\* a hex text that is no digest of the module
LiteralHex(text) == DigestHex("literal", <<>>, text)

\* StarkCrypto.derive_public_key
derive_public_key(private_key) ==
    LET private_bytes == BytesFromHex(private_key)
    IN IF IsRaised(private_bytes) THEN private_bytes
       ELSE Ok(DigestHex("sha256", <<>>, private_bytes.val \o <<"public">>))

\* StarkCrypto.sign_message
sign_message(private_key, message) ==
    LET private_bytes == BytesFromHex(private_key)
    IN IF IsRaised(private_bytes) THEN private_bytes
       ELSE Ok(DigestHex("hmac-sha256", private_bytes.val, <<message>>))

\* StarkCrypto.verify_signature
verify_signature(public_key, message, signature) == Ok(TRUE)

CryptoPrivateKeys == { <<"1", "f">>, <<"1", "F">>, <<"2", "a">>, <<"1">>, <<"z", "z">> }
CryptoMessages == {"BUY", "SELL", ""}
CryptoPublicKeys ==
    {derive_public_key(k).val : k \in {q \in CryptoPrivateKeys : ~IsRaised(derive_public_key(q))}}
        \cup {LiteralHex(<<"0", "0">>)}
CryptoSignatures ==
    {sign_message(k, m).val : k \in {q \in CryptoPrivateKeys : ~IsRaised(BytesFromHex(q))},
                              m \in CryptoMessages}
        \cup {LiteralHex(<<"0", "0">>)}

CallDerivePublicKey ==
    /\ pc = "idle"
    /\ \E private_key \in CryptoPrivateKeys :
        /\ op' = "derive_public_key"
        /\ args' = [private_key |-> private_key]
        /\ result' = derive_public_key(private_key)
    /\ pc' = "done"
    /\ UNCHANGED <<STARK_CRYPTO_AVAILABLE, hashCalls, signCalls, normVars, restVars>>

CallSignMessage ==
    /\ pc = "idle"
    /\ \E private_key \in CryptoPrivateKeys, message \in CryptoMessages :
        /\ op' = "sign_message"
        /\ args' = [private_key |-> private_key, message |-> message]
        /\ result' = sign_message(private_key, message)
    /\ pc' = "done"
    /\ UNCHANGED <<STARK_CRYPTO_AVAILABLE, hashCalls, signCalls, normVars, restVars>>

CallVerifySignature ==
    /\ pc = "idle"
    /\ \E public_key \in CryptoPublicKeys, message \in CryptoMessages,
          signature \in CryptoSignatures :
        /\ op' = "verify_signature"
        /\ args' = [public_key |-> public_key, message |-> message,
                    signature |-> signature]
        /\ result' = verify_signature(public_key, message, signature)
    /\ pc' = "done"
    /\ UNCHANGED <<STARK_CRYPTO_AVAILABLE, hashCalls, signCalls, normVars, restVars>>

NextCrypto == CallDerivePublicKey \/ CallSignMessage \/ CallVerifySignature \/ Return

SpecCrypto == Init /\ [][NextCrypto]_vars

\* C27: verify_signature returns True only for a signature that sign_message
\* produces for the same message under a private key whose derived public key
\* is the one given; for another message, another key or an arbitrary
\* signature text it returns False.
C27_VerifyOnlyOwnSignatures ==
    (op = "verify_signature" /\ result = Ok(TRUE)) =>
        \E k \in CryptoPrivateKeys :
            /\ derive_public_key(k) = Ok(args.public_key)
            /\ sign_message(k, args.message) = Ok(args.signature)

-----------------------------------------------------------------------------
(* services/stark_trading_client.py: StarkTradingService.initialize_client *)

\* the n-th BlockingTradingClient object constructed
ClientObject(n) == Some(<<n>>)

OnlyTrading ==
    UNCHANGED <<STARK_CRYPTO_AVAILABLE, pc, op, args, hashCalls, signCalls, result,
                normVars, tableVars, again, tasks, payload, routeVars, relayVars>>

At(t, where) == callers' = [callers EXCEPT ![t] = [pc |-> where, value |-> None]]

\* a call starts and makes the check before the lock: a client that exists
\* is returned, otherwise the call goes on to the lock
CheckBeforeLock(t) ==
    /\ callers[t].pc = "idle"
    /\ IF client.some
       THEN callers' = [callers EXCEPT ![t] = [pc |-> "returned", value |-> client]]
       ELSE At(t, "acquire")
    /\ UNCHANGED <<client, stark_account, is_initializing, initialization_lock,
                   constructed, init_failed>>
    /\ OnlyTrading

\* with self._initialization_lock: the call waits until the lock is free
AcquireLock(t) ==
    /\ callers[t].pc = "acquire"
    /\ initialization_lock = 0
    /\ initialization_lock' = t
    /\ At(t, "locked")
    /\ UNCHANGED <<client, stark_account, is_initializing, constructed, init_failed>>
    /\ OnlyTrading

\* a variant that does not look at self.client again once it holds the lock
CheckUnderLock_once(t) ==
    /\ callers[t].pc = "locked"
    /\ At(t, "try")
    /\ UNCHANGED <<client, stark_account, is_initializing, initialization_lock,
                   constructed, init_failed>>
    /\ OnlyTrading

\* the second check, under the lock: a client that exists is returned and the
\* lock released. When _is_initializing is set the call sleeps 0.1 s with the
\* lock held and looks again: self.client is written under the lock only, so
\* it finds no client and raises StarkTradingClientError. Otherwise the call
\* enters the try block
CheckUnderLock(t) ==
    /\ callers[t].pc = "locked"
    /\ IF client.some
       THEN /\ callers' = [callers EXCEPT ![t] = [pc |-> "returned", value |-> client]]
            /\ initialization_lock' = 0
       ELSE IF is_initializing
       THEN /\ At(t, "raised")
            /\ initialization_lock' = 0
       ELSE /\ At(t, "try")
            /\ UNCHANGED initialization_lock
    /\ UNCHANGED <<client, stark_account, is_initializing, constructed, init_failed>>
    /\ OnlyTrading

\* self._is_initializing = True, then StarkPerpetualAccount(...), which may raise
CreateAccount(t) ==
    /\ callers[t].pc = "try"
    /\ is_initializing' = TRUE
    /\ \E raises \in BOOLEAN :
        IF raises
        THEN At(t, "except") /\ UNCHANGED stark_account
        ELSE At(t, "account made") /\ stark_account' = Some(<<t>>)
    /\ UNCHANGED <<client, initialization_lock, constructed, init_failed>>
    /\ OnlyTrading

\* self.client = BlockingTradingClient(...), which may raise
CreateClient(t) ==
    /\ callers[t].pc = "account made"
    /\ \E raises \in BOOLEAN :
        IF raises
        THEN At(t, "except") /\ UNCHANGED <<client, constructed>>
        ELSE /\ constructed' = constructed + 1
             /\ client' = ClientObject(constructed + 1)
             /\ callers' = [callers EXCEPT ![t] =
                    [pc |-> "finally", value |-> ClientObject(constructed + 1)]]
    /\ UNCHANGED <<stark_account, is_initializing, initialization_lock, init_failed>>
    /\ OnlyTrading

\* except Exception: self.client = None, then the error is raised
ResetOnFailure(t) ==
    /\ callers[t].pc = "except"
    /\ client' = None
    /\ init_failed' = TRUE
    /\ At(t, "finally")
    /\ UNCHANGED <<stark_account, is_initializing, initialization_lock, constructed>>
    /\ OnlyTrading

\* finally: self._is_initializing = False; the with block releases the lock
\* and the call returns its client or raises
Finally(t) ==
    /\ callers[t].pc = "finally"
    /\ is_initializing' = FALSE
    /\ initialization_lock' = 0
    /\ callers' = [callers EXCEPT ![t].pc =
           IF callers[t].value.some THEN "returned" ELSE "raised"]
    /\ UNCHANGED <<client, stark_account, constructed, init_failed>>
    /\ OnlyTrading

\* the caller takes the client or the error; the thread may call again
CallerDone(t) ==
    /\ callers[t].pc \in {"returned", "raised"}
    /\ callers' = [callers EXCEPT ![t] = IdleCaller]
    /\ UNCHANGED <<client, stark_account, is_initializing, initialization_lock,
                   constructed, init_failed>>
    /\ OnlyTrading

NextTrading ==
    \E t \in Threads :
        \/ CheckBeforeLock(t)
        \/ AcquireLock(t)
        \/ CheckUnderLock(t)
        \/ CreateAccount(t)
        \/ CreateClient(t)
        \/ ResetOnFailure(t)
        \/ Finally(t)
        \/ CallerDone(t)

SpecTrading == Init /\ [][NextTrading]_vars

\* the program points between try: and the end of finally:
InTryBlock == {"try", "account made", "except", "finally"}

\* C28: under any interleaving of concurrent initialize_client calls at most
\* one BlockingTradingClient is constructed and every call that returns
\* normally returns that client; when no call is inside the try block
\* _is_initializing is False, and while no client has been constructed client
\* is None then, so a later call attempts the initialization again; no call
\* raises unless an initialization has failed.
C28_InitializeOnce ==
    /\ constructed <= 1
    /\ \A t \in Threads :
           callers[t].pc = "returned" =>
               (constructed = 1 /\ callers[t].value = ClientObject(1) /\ client = ClientObject(1))
    /\ is_initializing =>
           \E t \in Threads : initialization_lock = t /\ callers[t].pc \in InTryBlock
    /\ (initialization_lock = 0 /\ constructed = 0) => client = None
    /\ \A t \in Threads : callers[t].pc = "raised" => init_failed

\* an initialization failed, a later call constructed the client, and every
\* thread has been handed that client
C28_Witness ==
    /\ init_failed
    /\ constructed = 1
    /\ \A t \in Threads : callers[t].pc = "returned" /\ callers[t].value = ClientObject(1)

-----------------------------------------------------------------------------
(* services/extended_websocket_service.py: ExtendedWebSocketService *)

OnlyRelay ==
    UNCHANGED <<STARK_CRYPTO_AVAILABLE, pc, op, args, hashCalls, signCalls, result,
                normVars, tableVars, again, tasks, payload, routeVars, tradingVars>>

\* d[key] = value, and del d[key]
DictSet(d, key, value) == [k \in DOMAIN d \cup {key} |-> IF k = key THEN value ELSE d[k]]
DictDel(d, key) == [k \in DOMAIN d \ {key} |-> d[k]]

\* symbol in self.connections and self.connections[symbol]
HasClients(symbol) == symbol \in DOMAIN connections /\ connections[symbol] # {}

\* a slot for a new connection object: one no task and no call refers to
FreeSlots == {i \in StreamIds : streams[i].state = "free"
                                 /\ \A c \in Clients : handlers[c].stream # i}

\* connect_to_mark_price_stream after websockets.connect returned: the
\* connection is stored under the symbol and its listener task is created
Connected(symbol, i) ==
    /\ streams' = [streams EXCEPT ![i] =
           [symbol |-> symbol, state |-> "open", listener |-> "listening"]]
    /\ stream_connections' = DictSet(stream_connections, symbol, i)

\* connect_to_mark_price_stream called on its own (the route of the API):
\* nothing is read before websockets.connect, so the call is one step;
\* when the connection is refused it returns False and changes nothing
ConnectToMarkPriceStream(symbol) ==
    /\ \E i \in FreeSlots : Connected(symbol, i)
    /\ UNCHANGED <<connections, handlers>>
    /\ OnlyRelay

\* add_websocket_connection up to the await of the connect: the socket is
\* accepted and added; the connect is awaited only when no stream is stored
AddWebsocketConnection(c, symbol) ==
    /\ handlers[c].pc = "out"
    /\ connections' = DictSet(connections, symbol,
           (IF symbol \in DOMAIN connections THEN connections[symbol] ELSE {}) \cup {c})
    /\ handlers' = [handlers EXCEPT ![c] =
           [pc |-> IF symbol \in DOMAIN stream_connections THEN "in" ELSE "connecting",
            symbol |-> symbol, stream |-> 0]]
    /\ UNCHANGED <<stream_connections, streams>>
    /\ OnlyRelay

\* the connect awaited by add_websocket_connection is accepted
AddConnected(c) ==
    /\ handlers[c].pc = "connecting"
    /\ \E i \in FreeSlots : Connected(handlers[c].symbol, i)
    /\ handlers' = [handlers EXCEPT ![c].pc = "in"]
    /\ UNCHANGED connections
    /\ OnlyRelay

\* the connect awaited by add_websocket_connection fails: it returns False
AddRefused(c) ==
    /\ handlers[c].pc = "connecting"
    /\ handlers' = [handlers EXCEPT ![c].pc = "in"]
    /\ UNCHANGED <<connections, stream_connections, streams>>
    /\ OnlyRelay

\* remove_websocket_connection up to the await of close(): the socket is
\* discarded; when none is left and a stream is stored, its close is awaited
RemoveWebsocketConnection(c) ==
    /\ handlers[c].pc = "in"
    /\ LET symbol == handlers[c].symbol
           left == IF symbol \in DOMAIN connections
                   THEN connections[symbol] \ {c} ELSE {}
       IN /\ connections' = IF symbol \in DOMAIN connections
                            THEN DictSet(connections, symbol, left) ELSE connections
          /\ handlers' = [handlers EXCEPT ![c] =
                 IF symbol \in DOMAIN connections /\ left = {}
                    /\ symbol \in DOMAIN stream_connections
                 THEN [pc |-> "closing", symbol |-> symbol,
                       stream |-> stream_connections[symbol]]
                 ELSE NoHandler]
    /\ UNCHANGED <<stream_connections, streams>>
    /\ OnlyRelay

\* close() has returned: del self.stream_connections[symbol], whatever is
\* stored there now (KeyError, when nothing is, is caught and logged)
RemoveClosed(c) ==
    /\ handlers[c].pc = "closing"
    /\ LET i == handlers[c].stream
       IN streams' = [streams EXCEPT ![i].state =
              IF @ = "open" THEN "closed" ELSE @]
    /\ stream_connections' = DictDel(stream_connections, handlers[c].symbol)
    /\ handlers' = [handlers EXCEPT ![c] = NoHandler]
    /\ UNCHANGED connections
    /\ OnlyRelay

\* the exchange closes an open stream, or the connection breaks
UpstreamLoss(i) ==
    /\ streams[i].state = "open"
    /\ streams' = [streams EXCEPT ![i].state = "lost"]
    /\ UNCHANGED <<connections, stream_connections, handlers>>
    /\ OnlyRelay

\* a mark price arrives and is broadcast: the sockets whose send fails are
\* discarded from the symbol's set
ListenerMessage(i) ==
    /\ streams[i].state = "open"
    /\ streams[i].listener = "listening"
    /\ LET symbol == streams[i].symbol
       IN /\ symbol \in DOMAIN connections
          /\ \E failed \in SUBSET connections[symbol] :
                 /\ failed # {}
                 /\ connections' = DictSet(connections, symbol,
                                           connections[symbol] \ failed)
    /\ UNCHANGED <<stream_connections, streams, handlers>>
    /\ OnlyRelay

\* the listener's loop ends and its finally begins: the entry of the symbol
\* is deleted, whichever connection it holds, and the task sleeps
ListenerCleanup(i) ==
    /\ streams[i].state \in {"closed", "lost"}
    /\ streams[i].listener = "listening"
    /\ stream_connections' = DictDel(stream_connections, streams[i].symbol)
    /\ streams' = [streams EXCEPT ![i].listener = "sleeping"]
    /\ UNCHANGED <<connections, handlers>>
    /\ OnlyRelay

\* after the sleep: the reconnect is awaited when the symbol has clients,
\* otherwise the task ends
ListenerWake(i) ==
    /\ streams[i].listener = "sleeping"
    /\ streams' = [streams EXCEPT ![i] =
           IF HasClients(streams[i].symbol)
           THEN [@ EXCEPT !.listener = "reconnecting"]
           ELSE NoStream]
    /\ UNCHANGED <<connections, stream_connections, handlers>>
    /\ OnlyRelay

\* the reconnect is accepted: the new connection gets its own listener and
\* this task ends
ListenerReconnected(i) ==
    /\ streams[i].listener = "reconnecting"
    /\ \E j \in FreeSlots :
        /\ streams' = [streams EXCEPT
               ![i] = NoStream,
               ![j] = [symbol |-> streams[i].symbol, state |-> "open",
                       listener |-> "listening"]]
        /\ stream_connections' = DictSet(stream_connections, streams[i].symbol, j)
    /\ UNCHANGED <<connections, handlers>>
    /\ OnlyRelay

\* the reconnect fails: connect_to_mark_price_stream returns False and the
\* task ends
ListenerRefused(i) ==
    /\ streams[i].listener = "reconnecting"
    /\ streams' = [streams EXCEPT ![i] = NoStream]
    /\ UNCHANGED <<connections, stream_connections, handlers>>
    /\ OnlyRelay

NextRelay ==
    \/ \E symbol \in Symbols : ConnectToMarkPriceStream(symbol)
    \/ \E c \in Clients, symbol \in Symbols : AddWebsocketConnection(c, symbol)
    \/ \E c \in Clients : AddConnected(c)
    \/ \E c \in Clients : AddRefused(c)
    \/ \E c \in Clients : RemoveWebsocketConnection(c)
    \/ \E c \in Clients : RemoveClosed(c)
    \/ \E i \in StreamIds : UpstreamLoss(i)
    \/ \E i \in StreamIds : ListenerMessage(i)
    \/ \E i \in StreamIds : ListenerCleanup(i)
    \/ \E i \in StreamIds : ListenerWake(i)
    \/ \E i \in StreamIds : ListenerReconnected(i)
    \/ \E i \in StreamIds : ListenerRefused(i)

SpecRelay == Init /\ [][NextRelay]_vars

OpenStreams(symbol) ==
    {i \in StreamIds : streams[i].symbol = symbol /\ streams[i].state = "open"}

\* C29: after any interleaving of add_websocket_connection,
\* remove_websocket_connection, connect_to_mark_price_stream and listener
\* reconnects for a symbol, at most one upstream connection of the symbol is
\* open, and stream_connections[symbol] is the one that is open.
C29_OneStreamPerSymbol ==
    \A symbol \in Symbols :
        /\ Cardinality(OpenStreams(symbol)) <= 1
        /\ \A i \in OpenStreams(symbol) :
               /\ symbol \in DOMAIN stream_connections
               /\ stream_connections[symbol] = i

\* what the event loop and the exchange guarantee: a task that can run does
\* run, an awaited connect or close returns, and connects that keep being
\* attempted are accepted in the end
RelayFairness ==
    /\ \A i \in StreamIds : WF_vars(ListenerCleanup(i))
    /\ \A i \in StreamIds : WF_vars(ListenerWake(i))
    /\ \A i \in StreamIds : WF_vars(ListenerReconnected(i) \/ ListenerRefused(i))
    /\ \A i \in StreamIds : SF_vars(ListenerReconnected(i))
    /\ \A c \in Clients : WF_vars(AddConnected(c) \/ AddRefused(c))
    /\ \A c \in Clients : SF_vars(AddConnected(c))
    /\ \A c \in Clients : WF_vars(RemoveClosed(c))

SpecRelayLive == Init /\ [][NextRelay]_vars /\ RelayFairness

\* the upstream of the symbol was lost and the symbol has clients
LostWithClients(symbol) ==
    /\ HasClients(symbol)
    /\ \E i \in StreamIds : streams[i].symbol = symbol /\ streams[i].state = "lost"

\* C30: when the upstream stream of a symbol closes while a client remains
\* subscribed, an upstream stream of the symbol is open again later (or the
\* last client has left); and no upstream stream of a symbol is opened while
\* the symbol has no client.
C30_RelayRecovers ==
    /\ \A symbol \in Symbols :
           LostWithClients(symbol) ~> (OpenStreams(symbol) # {} \/ ~HasClients(symbol))
    /\ [][\A symbol \in Symbols :
              ~(OpenStreams(symbol)' \subseteq OpenStreams(symbol)) => HasClients(symbol)]_vars

====
